---- MODULE Spec2Model ----
(***************************************************************************)
(* A model of the optimization core of morpho: the functional evaluator    *)
(* (functional.c), the OptimizationProblem / Optimizer classes and the    *)
(* fix / unfix lists (optimize.morpho), brent and the line search, the    *)
(* MeshRefiner, the triangle refinement and the rebinding after a           *)
(* refinement (meshtools.morpho), and the Sparse matrix class (sparse.c).   *)
(*                                                                         *)
(* Floating point quantities are modelled on an integer grid: coordinates, *)
(* field values, energies and forces are integers, and the finite          *)
(* difference step eps is one grid unit.                                   *)
(*                                                                         *)
(* The module holds several specifications, one per component.  Each has   *)
(* its own Init and Next; the variables of the other components keep the   *)
(* idle value they are given in Init.                                      *)
(***************************************************************************)
EXTENDS Integers, Sequences, FiniteSets, TLC

(***************************************************************************)
(* Generic helpers                                                         *)
(***************************************************************************)
Range(s) == { s[i] : i \in DOMAIN s }

RECURSIVE SeqSum(_)
SeqSum(s) == IF s = <<>> THEN 0 ELSE Head(s) + SeqSum(Tail(s))

\* The elements of a finite set of integers in ascending order
RECURSIVE Ascending(_)
Ascending(S) ==
  IF S = {} THEN <<>>
  ELSE LET m == CHOOSE x \in S : \A y \in S : x <= y
       IN <<m>> \o Ascending(S \ {m})

\* Insert x into an ascending sequence (used to model qsort of element ids)
RECURSIVE InsertSorted(_, _)
InsertSorted(x, s) ==
  IF s = <<>> THEN <<x>>
  ELSE IF x <= Head(s) THEN <<x>> \o s
  ELSE <<Head(s)>> \o InsertSorted(x, Tail(s))

RECURSIVE QSort(_)
QSort(s) == IF s = <<>> THEN <<>> ELSE InsertSorted(Head(s), QSort(Tail(s)))

\* All sequences without repetition over the elements of a finite set S
RECURSIVE Perms(_)
Perms(S) ==
  IF S = {} THEN { <<>> }
  ELSE UNION { { <<x>> \o p : p \in Perms(S \ {x}) } : x \in S }

Abs(x) == IF x < 0 THEN -x ELSE x

(***************************************************************************)
(* State                                                                   *)
(***************************************************************************)
VARIABLES
  \* numerical gradients
  vert,      \* mesh->vert: vertex id -> coordinates
  fdata,     \* field->data.elements: one scalar per vertex
  ngpc,      \* where the running gradient evaluation is
  ngwork,    \* the perturbations the call goes through
  ngpos,     \* the perturbation at hand (index into ngwork)
  ngx0,      \* x0 / fld: the saved value of the perturbed entry
  ngfrc,     \* number of difference quotients added per vertex
  nginfo,    \* the call: grade, dependencies query, selection
  vertAtCall,  \* the vertex coordinates when the call started
  fdataAtCall, \* the field data when the call started
  \* functional_sumintegrand / functional_mapintegrand
  smconn,    \* C(g,g): the DOK keys (i,j), head of the list first
  smval,     \* what the integrand returns for each element
  smpc,      \* "idle", "total", "integrand", "done", "failed"
  smorder,   \* the ids the element loop goes through, in order
  smk,       \* position of the loop in smorder
  sindx,     \* index into imageids
  smpassed,  \* the elements passed to the integrand so far
  smsum,     \* sum (total)
  smout,     \* the row matrix (integrand)
  smleft,      \* the calls of total / integrand the script still makes
  smcalls,     \* what the calls that have returned gave
  \* functional_mapgradient
  gx,        \* vertex coordinates (one dimension)
  gsym,      \* C(0,0): the DOK keys (i,j), head of the list first
  gpc,       \* "idle", "grad", "sym", "done", "failed"
  gsymbhvr,  \* info->sym
  gorder,    \* the ids the element loop goes through, in order
  gk,        \* position of the loop in gorder
  gctr,      \* ctr of sparsedok_loop: the keys still to visit
  frc,       \* the force matrix: one entry per vertex
  \* OptimizationProblem
  mesh,              \* self.mesh
  fields,            \* self.fields
  energies,          \* self.energies: list of Energy records
  constraints,       \* self.constraints: list of Constraint records
  localconstraints,  \* self.localconstraints: list of Constraint records
  funcfield,         \* the field property of each functional object
  ftotal,            \* functional.total(mesh) and functional.total(mesh, selection) now
  refmap,            \* the dictionary MeshRefiner.refine returned
  pcall,             \* the last method called on the problem, with its arguments
  \* MeshRefiner
  refinemap,   \* self.refinemap: per grade, new id -> old id or list of old ids
  rsel,        \* the selection given to refineselection: per grade, the ids
  rresult,     \* what refineselection returned: per grade, the ids
  rpc,         \* "new", "refined", "selected", "fielded"
  rfield,      \* the field given to refinefield: shape and values
  rnewfield,   \* what refinefield returned
  \* Optimizer
  otarget,     \* the value of the target (vertex positions or field values)
  energy,      \* self.energy: the history of energies
  nc,          \* number of active global constraints
  opc,         \* where the optimizer is
  method,      \* "relax", "linesearch" or "conjugategradient"
  on,          \* n, the number of iterations asked for
  oi,          \* i, the iteration of relax / linesearch / conjugategradient
  iterstart,   \* target and history when iteration i started
  bracket,     \* bracketstepsize: the energies at the three step sizes
  biter,       \* bracketstepsize: iter
  bfail,       \* bracketstepsize returned nil
  bk,          \* brent: evaluations of func so far
  vsave,       \* energywithstepsize: the saved target
  eret,        \* who called energywithstepsize
  sret,        \* who called step
  rci,         \* reprojectconstraints: i
  rdv,         \* reprojectconstraints: the residuals when it returns
  warned,      \* reprojectconstraints printed its warning
  oerror,      \* the runtime error raised, "none" if none
  nadj,        \* bracketstepsize: adjustments of the trial step sizes so far
  nlc,         \* number of active local constraints
  lci,         \* reprojectlocalconstraints: iter
  lcwarned,    \* reprojectlocalconstraints printed its warning
  stepsize,    \* self.stepsize
  steplimit,   \* self.steplimit
  bs,          \* bracketstepsize: s[1] and s[2]
  size,        \* the step size passed to energywithstepsize or to step
  \* Sparse
  sdok,        \* object -> the DOK form: key list, dictionary, nrows, ncols
  sccs,        \* object -> the CCS form: nrows, ncols, cptr, rix, values
  scall,       \* the last method called on a Sparse object and what it returned
  sedited,     \* objects whose CCS form setrowindices has written to
  sstale,      \* objects assigned to while they had a CCS form
  sinserted,   \* the keys of "a" in the order they were first inserted
  \* Triangle refinement
  tvert,       \* vertex id -> position
  tface,       \* the faces: ascending vertex triples
  tedge,       \* the edges: ascending vertex pairs
  tnew,        \* the refined mesh: vertices, edges, faces
  tpc,         \* "mesh", then which refinement produced tnew
  tsel,        \* the selection refinemesh was called with
  \* Fixing
  fixed,       \* ShapeOptimizer.fixed: Nil or the list of vertex ids
  ffixed,      \* FieldOptimizer.fixed: Nil or the selected <<grade, id>> pairs
  everfixed,   \* the ids fixed and not unfixed afterwards
  feverfixed,  \* the elements fixed and not unfixed afterwards
  fxerror,     \* the last call ended in an index out of bounds
  \* Fixed vertices under descent
  vcoord,      \* the vertex matrix: vertex id -> coordinate
  vfixed,      \* the ids in ShapeOptimizer.fixed
  vhome,       \* the vertex matrix when the ids were fixed
  vforce,      \* self.force
  vpc,         \* where the descent is
  vi,          \* the iteration
  verror,      \* the runtime error raised, "none" if none
  \* Rebinding after refinement
  rbm,         \* the script variable m, a mesh
  rbnn,        \* the script variable nn, a field
  rbbnd,       \* the script variable bnd, a selection
  rbpmesh,     \* problem.mesh
  rbpfield,    \* the field of the local constraint of the problem
  rbesel,      \* the selection of an energy of the problem
  rbstarget,   \* the target of the ShapeOptimizer
  rbftarget,   \* the target of the FieldOptimizer
  rbffixed,    \* the fixed selection of the FieldOptimizer, or nil
  rblist,      \* the target list of the MeshRefiner
  rbmap,       \* refmap, as pairs of old and new object
  rbupd,       \* who has still to be updated
  rbgen,       \* how often the mesh has been refined
  rbpc,        \* position of the script
  \* Line search and brent
  lsE,         \* the energy along the line of descent, by stretches of step size
  lsstepsize,  \* self.stepsize
  lssteplimit, \* self.steplimit
  lsenergy,    \* self.energy, the history
  lsbrack,     \* the bracket brent is called with
  br,          \* the variables of brent
  brevals,     \* the points brent has evaluated func at, with the values
  brret,       \* what brent has returned
  lspc         \* position in linesearch

ngvars == <<vert, fdata, ngpc, ngwork, ngpos, ngx0, ngfrc, vertAtCall, fdataAtCall, nginfo>>
smvars == <<smconn, smval, smpc, smorder, smk, sindx, smpassed, smsum, smout,
            smleft, smcalls>>
grvars == <<gx, gsym, gpc, gsymbhvr, gorder, gk, gctr, frc>>

opvars == <<mesh, fields, energies, constraints, localconstraints, funcfield,
            ftotal, refmap, pcall>>

mrvars == <<refinemap, rsel, rresult, rpc, rfield, rnewfield>>

ovars == <<otarget, energy, nc, opc, method, on, oi, iterstart, bracket, biter,
           bfail, bk, vsave, eret, sret, rci, rdv, warned, oerror, nadj,
           nlc, lci, lcwarned, stepsize, steplimit, bs, size>>

spvars == <<sdok, sccs, scall, sedited, sstale, sinserted>>
trvars == <<tvert, tface, tedge, tnew, tpc, tsel>>
fxvars == <<fixed, ffixed, everfixed, feverfixed, fxerror>>
fvvars == <<vcoord, vfixed, vhome, vforce, vpc, vi, verror>>
rbvars == <<rbm, rbnn, rbbnd, rbpmesh, rbpfield, rbesel, rbstarget, rbftarget, rbffixed, rblist, rbmap, rbupd, rbgen, rbpc>>
lsvars == <<lsE, lsstepsize, lssteplimit, lsenergy, lsbrack, br, brevals, brret, lspc>>

vars == <<ngvars, smvars, grvars, opvars, mrvars, ovars, spvars, trvars, fxvars, fvvars, rbvars, lsvars>>

notNG == <<smvars, grvars, opvars, mrvars, ovars, spvars, trvars, fxvars, fvvars, rbvars, lsvars>>
notSM == <<ngvars, grvars, opvars, mrvars, ovars, spvars, trvars, fxvars, fvvars, rbvars, lsvars>>
notGR == <<ngvars, smvars, opvars, mrvars, ovars, spvars, trvars, fxvars, fvvars, rbvars, lsvars>>
notOP == <<ngvars, smvars, grvars, mrvars, ovars, spvars, trvars, fxvars, fvvars, rbvars, lsvars>>
notMR == <<ngvars, smvars, grvars, opvars, ovars, spvars, trvars, fxvars, fvvars, rbvars, lsvars>>
notO == <<ngvars, smvars, grvars, opvars, mrvars, spvars, trvars, fxvars, fvvars, rbvars, lsvars>>
notSP == <<ngvars, smvars, grvars, opvars, mrvars, ovars, trvars, fxvars, fvvars, rbvars, lsvars>>
notTR == <<ngvars, smvars, grvars, opvars, mrvars, ovars, spvars, fxvars, fvvars, rbvars, lsvars>>
notFX == <<ngvars, smvars, grvars, opvars, mrvars, ovars, spvars, trvars, fvvars, rbvars, lsvars>>
notFV == <<ngvars, smvars, grvars, opvars, mrvars, ovars, spvars, trvars, fxvars, rbvars, lsvars>>
notRB == <<ngvars, smvars, grvars, opvars, mrvars, ovars, spvars, trvars, fxvars, fvvars, lsvars>>
notLS == <<ngvars, smvars, grvars, opvars, mrvars, ovars, spvars, trvars, fxvars, fvvars, rbvars>>

(***************************************************************************)
(* Symmetry images (functional.c)                                          *)
(*                                                                         *)
(* A DOK sparse matrix keeps its keys in a linked list; a new key is put   *)
(* at the head of the list.  A connectivity matrix is modelled by that     *)
(* list of (row, col) keys, head first.                                    *)
(***************************************************************************)

\* sparsedok_loopstart / sparsedok_loop: the keys from the head of the list
DokLoop(keys) == keys

\* functional_symmetryimagelist: the column index of every entry, then qsort
functional_symmetryimagelist(conn, sort) ==
  LET js == [ n \in DOMAIN DokLoop(conn) |-> DokLoop(conn)[n][2] ]
  IN IF sort THEN QSort(js) ELSE js

\* The element loop shared by functional_sumintegrand, functional_mapintegrand
\* and functional_mapnumericalgradient: elements are taken in the order
\* `order'; an element is skipped when it equals ids[si] (imageids[sindx]),
\* and only then is si advanced.  The result is the sequence of elements that are
\* passed on to the integrand.
RECURSIVE ElementLoop(_, _, _)
ElementLoop(order, ids, si) ==
  IF order = <<>> THEN <<>>
  ELSE LET i == Head(order) IN
       IF Len(ids) > 0 /\ si < Len(ids) /\ ids[si + 1] = i
       THEN ElementLoop(Tail(order), ids, si + 1)
       ELSE <<i>> \o ElementLoop(Tail(order), ids, si)

(***************************************************************************)
(* Numerical gradients (functional.c)                                      *)
(*                                                                         *)
(* The mesh is a line mesh: NGVerts vertices on a path, vertex v joined to *)
(* v+1.  A functional of grade 0 has one element per vertex, a functional  *)
(* of grade 1 one element per line.  The field has one scalar per vertex.  *)
(***************************************************************************)
NGVerts == 3
MeshDim == 1
MaxCoord == 2
Eps == 1

NGVertexIds == 0 .. NGVerts - 1
NGLineIds == 0 .. NGVerts - 2
NGDims == 0 .. MeshDim - 1

\* sparseccs_getrowindices on C(0,1): the vertices of line l
LineVertices(l) == <<l, l + 1>>

\* functional_countelements
NGElementCount(g) == IF g = 0 THEN NGVerts ELSE NGVerts - 1

\* The vertex list vid of element i of grade g
NGVid(g, i) == IF g = 0 THEN <<i>> ELSE LineVertices(i)

\* mesh_findneighbors(mesh, 0, id, 1): the lines incident on a vertex
NGNeighborLines(id) == Ascending({ l \in NGLineIds : id \in Range(LineVertices(l)) })

\* linecurvsq_dependencies: the other end of every line at vertex id
RECURSIVE linecurvsq_dependencies_loop(_, _)
linecurvsq_dependencies_loop(id, nbrs) ==
  IF nbrs = <<>> THEN <<>>
  ELSE SelectSeq(LineVertices(Head(nbrs)), LAMBDA e : e # id)
       \o linecurvsq_dependencies_loop(id, Tail(nbrs))

linecurvsq_dependencies(id) == linecurvsq_dependencies_loop(id, NGNeighborLines(id))

\* varray_elementidwriteunique over a list
RECURSIVE writeunique(_, _)
writeunique(out, l) ==
  IF l = <<>> THEN out
  ELSE writeunique(IF Head(l) \in Range(out) THEN out ELSE Append(out, Head(l)), Tail(l))

\* mesh_findneighbors(mesh, 1, id, 1): the other lines that share a vertex
NGLineNeighbors(id) ==
  Ascending({ l \in NGLineIds \ {id} :
                Range(LineVertices(l)) \cap Range(LineVertices(id)) # {} })

\* linetorsionsq_dependencies: every vertex of every neighbouring line, once
RECURSIVE linetorsionsq_dependencies_loop(_, _)
linetorsionsq_dependencies_loop(out, nbrs) ==
  IF nbrs = <<>> THEN out
  ELSE linetorsionsq_dependencies_loop(writeunique(out, LineVertices(Head(nbrs))),
                                       Tail(nbrs))

linetorsionsq_dependencies(id) ==
  linetorsionsq_dependencies_loop(<<>>, NGLineNeighbors(id))

\* info->dependencies: the query of the functional, if it has one
Dependencies(query, id) ==
  CASE query = "linecurvsq" -> linecurvsq_dependencies(id)
    [] query = "linetorsionsq" -> linetorsionsq_dependencies(id)
    [] OTHER -> <<>>

\* The order in which a selection's ids are visited.  The selection keeps its
\* ids in a hash table whose iteration order is not fixed by the ids: any
\* order of the selected ids may come out.
SelectionOrders(S) == Perms(S)

\* functional_numericalgradient for one element: one perturbation per
\* (vertex of the element, coordinate)
RECURSIVE LocalWork(_, _, _)
LocalWork(i, vid, dims) ==
  IF vid = <<>> THEN <<>>
  ELSE [ n \in 1 .. Len(dims) |->
           [store |-> "vert", el |-> i, at |-> Head(vid), k |-> dims[n], remote |-> FALSE] ]
       \o LocalWork(i, Tail(vid), dims)

\* functional_numericalremotegradient for each dependency of element i
RECURSIVE RemoteWork(_, _, _)
RemoteWork(i, deps, dims) ==
  IF deps = <<>> THEN <<>>
  ELSE [ n \in 1 .. Len(dims) |->
           [store |-> "vert", el |-> i, at |-> Head(deps), k |-> dims[n], remote |-> TRUE] ]
       \o RemoteWork(i, Tail(deps), dims)

\* functional_mapnumericalgradient: the perturbations of a whole call, in
\* order.  `order' is 0..n-1 without a selection and the selection's order
\* with one; only the loop without a selection drops the dependencies that
\* are vertices of the element itself.
RECURSIVE NumGradWork(_, _, _, _)
NumGradWork(g, els, useDeps, hasSel) ==
  IF els = <<>> THEN <<>>
  ELSE LET i == Head(els)
           vid == NGVid(g, i)
           alldeps == Dependencies(useDeps, i)
           deps == IF hasSel THEN alldeps
                   ELSE SelectSeq(alldeps, LAMBDA d : d \notin Range(vid))
       IN LocalWork(i, vid, Ascending(NGDims))
          \o RemoteWork(i, deps, Ascending(NGDims))
          \o NumGradWork(g, Tail(els), useDeps, hasSel)

functional_mapnumericalgradient_work(g, useDeps, hasSel, order, conn) ==
  NumGradWork(g, ElementLoop(order, functional_symmetryimagelist(conn, TRUE), 0),
              useDeps, hasSel)

\* functional_mapnumericalfieldgradient for a field with one scalar per
\* vertex and a functional of grade 1: for every vertex id, for every line
\* incident on it (mesh_getconnectivity on C(1,0)) that is selected, the
\* field entry of the vertex is perturbed
RECURSIVE FieldEntryWork(_, _, _, _)
FieldEntryWork(id, entries, hasSel, sel) ==
  IF entries = <<>> THEN <<>>
  ELSE (IF hasSel /\ Head(entries) \notin sel THEN <<>>
        ELSE << [store |-> "field", el |-> Head(entries), at |-> id, k |-> 0,
                 remote |-> FALSE] >>)
       \o FieldEntryWork(id, Tail(entries), hasSel, sel)

RECURSIVE FieldGradWork(_, _, _)
FieldGradWork(ids, hasSel, sel) ==
  IF ids = <<>> THEN <<>>
  ELSE FieldEntryWork(Head(ids), NGNeighborLines(Head(ids)), hasSel, sel)
       \o FieldGradWork(Tail(ids), hasSel, sel)

functional_mapnumericalfieldgradient_work(hasSel, sel) ==
  FieldGradWork(Ascending(NGVertexIds), hasSel, sel)

NoInfo == [g |-> 0, dependencies |-> "none", sel |-> FALSE, order |-> <<>>]

NGIdle ==
  /\ vert = <<>> /\ fdata = <<>> /\ ngpc = "off" /\ ngwork = <<>> /\ ngpos = 0
  /\ ngx0 = 0 /\ ngfrc = <<>> /\ vertAtCall = <<>> /\ fdataAtCall = <<>>
  /\ nginfo = NoInfo

NGInit ==
  /\ vert \in [NGVertexIds -> [NGDims -> 0 .. MaxCoord]]
  /\ fdata \in [NGVertexIds -> 0 .. 1]
  /\ ngpc = "idle"
  /\ ngwork = <<>>
  /\ ngpos = 0
  /\ ngx0 = 0
  /\ ngfrc = [v \in NGVertexIds |-> 0]
  /\ vertAtCall = vert
  /\ fdataAtCall = fdata
  /\ nginfo = NoInfo

NGItem == ngwork[ngpos]

NGRead == IF NGItem.store = "vert" THEN vert[NGItem.at][NGItem.k] ELSE fdata[NGItem.at]

\* matrix_setelement(mesh->vert, k, vid, x) or field->data.elements[k] = x
NGWrite(x) ==
  IF NGItem.store = "vert"
  THEN /\ vert' = [vert EXCEPT ![NGItem.at][NGItem.k] = x]
       /\ UNCHANGED fdata
  ELSE /\ fdata' = [fdata EXCEPT ![NGItem.at] = x]
       /\ UNCHANGED vert

NGStart(work, info) ==
  /\ ngwork' = work
  /\ nginfo' = info
  /\ ngpos' = 1
  /\ ngpc' = IF work = <<>> THEN "done" ELSE "perturb"
  /\ vertAtCall' = vert
  /\ fdataAtCall' = fdata
  /\ UNCHANGED <<vert, fdata, ngx0, ngfrc>>
  /\ UNCHANGED notNG

\* functional.gradient(mesh [, selection]) of a numerically differentiated
\* functional
NumGradientCall ==
  /\ ngpc = "idle"
  /\ \E g \in {0, 1}, useDeps \in {"none", "linecurvsq", "linetorsionsq"},
        hasSel \in BOOLEAN :
       /\ useDeps = "linecurvsq" => g = 0
       /\ useDeps = "linetorsionsq" => g = 1
       /\ \E order \in (IF hasSel
                        THEN UNION { SelectionOrders(S) :
                                     S \in SUBSET (0 .. NGElementCount(g) - 1) }
                        ELSE { Ascending(0 .. NGElementCount(g) - 1) }) :
            NGStart(functional_mapnumericalgradient_work(g, useDeps, hasSel,
                                                         order, <<>>),
                    [g |-> g, dependencies |-> useDeps, sel |-> hasSel,
                     order |-> order])

\* functional.fieldgradient(field, mesh [, selection])
NumFieldGradientCall ==
  /\ ngpc = "idle"
  /\ \E hasSel \in BOOLEAN, sel \in SUBSET NGLineIds :
       /\ ~hasSel => sel = {}
       /\ NGStart(functional_mapnumericalfieldgradient_work(hasSel, sel),
                  [NoInfo EXCEPT !.g = 2])

\* x0 is read and the entry is set to x0 + eps
NGPerturbPlus ==
  /\ ngpc = "perturb"
  /\ ngx0' = NGRead
  /\ NGWrite(NGRead + Eps)
  /\ ngpc' = "evalplus"
  /\ UNCHANGED <<ngwork, ngpos, ngfrc, vertAtCall, fdataAtCall, nginfo>>
  /\ UNCHANGED notNG

\* the integrand succeeds at x0 + eps; the entry is set to x0 - eps
NGEvalPlusOk ==
  /\ ngpc = "evalplus"
  /\ NGWrite(ngx0 - Eps)
  /\ ngpc' = "evalminus"
  /\ UNCHANGED <<ngwork, ngpos, ngx0, ngfrc, vertAtCall, fdataAtCall, nginfo>>
  /\ UNCHANGED notNG

\* the integrand fails at x0 + eps: return false / goto cleanup
NGEvalPlusFail ==
  /\ ngpc = "evalplus"
  /\ ngpc' = "failed"
  /\ UNCHANGED <<vert, fdata, ngwork, ngpos, ngx0, ngfrc, vertAtCall, fdataAtCall, nginfo>>
  /\ UNCHANGED notNG

\* the integrand succeeds at x0 - eps; the entry is set back to x0 and the
\* difference quotient is added to the force
NGEvalMinusOk ==
  /\ ngpc = "evalminus"
  /\ NGWrite(ngx0)
  /\ ngfrc' = [ngfrc EXCEPT ![NGItem.at] = @ + 1]
  /\ ngpos' = ngpos + 1
  /\ ngpc' = IF ngpos = Len(ngwork) THEN "done" ELSE "perturb"
  /\ UNCHANGED <<ngwork, ngx0, vertAtCall, fdataAtCall, nginfo>>
  /\ UNCHANGED notNG

\* the integrand fails at x0 - eps: return false / goto cleanup
NGEvalMinusFail ==
  /\ ngpc = "evalminus"
  /\ ngpc' = "failed"
  /\ UNCHANGED <<vert, fdata, ngwork, ngpos, ngx0, ngfrc, vertAtCall, fdataAtCall, nginfo>>
  /\ UNCHANGED notNG

NGNext ==
  \/ NumGradientCall
  \/ NumFieldGradientCall
  \/ NGPerturbPlus
  \/ NGEvalPlusOk
  \/ NGEvalPlusFail
  \/ NGEvalMinusOk
  \/ NGEvalMinusFail

(***************************************************************************)
(* functional_sumintegrand and functional_mapintegrand (functional.c)      *)
(*                                                                         *)
(* A mesh with SumElems elements of the functional's grade.  C(g,g) holds  *)
(* the symmetry identifications: element j of an entry (i,j) is an image.  *)
(***************************************************************************)
SumElems == 3
MaxImagePairs == 2

SumIds == 0 .. SumElems - 1

\* The (i,j) with i # j that a C(g,g) or C(0,0) matrix over ids may hold
PairsOver(ids) == { p \in ids \X ids : p[1] # p[2] }

\* DOK key lists without repeated keys (sparsedok_insert adds a key once)
DokKeyLists(ids, maxlen) ==
  UNION { Perms(K) : K \in { K \in SUBSET PairsOver(ids) : Cardinality(K) <= maxlen } }

\* The orders an element loop may take: 0..n-1 without a selection, the
\* selection's own order with one
LoopOrders(hasSel, ids) ==
  IF hasSel THEN UNION { SelectionOrders(S) : S \in SUBSET ids }
  ELSE { Ascending(ids) }

SMIdle ==
  /\ smconn = <<>> /\ smval = <<>> /\ smpc = "off" /\ smorder = <<>> /\ smk = 0
  /\ sindx = 0 /\ smpassed = <<>> /\ smsum = 0 /\ smout = <<>>
  /\ smleft = 0 /\ smcalls = <<>>

SMInit ==
  /\ smconn \in DokKeyLists(SumIds, MaxImagePairs)
  /\ smval \in [SumIds -> 1 .. 2]
  /\ smpc = "idle"
  /\ smorder = <<>>
  /\ smk = 0
  /\ sindx = 0
  /\ smpassed = <<>>
  /\ smsum = 0
  /\ smout = [i \in SumIds |-> 0]
  /\ smleft = 1
  /\ smcalls = <<>>

\* a script that calls total and integrand one after the other with the same
\* arguments; element i has the integrand 2^i, so that a sum tells which
\* elements are in it
SMTwiceInit ==
  /\ smconn \in DokKeyLists(SumIds, 1) \cup { << <<0, 1>>, <<0, 2>> >>, << <<0, 2>>, <<0, 1>> >> }
  /\ smval = [i \in SumIds |-> 2 ^ i]
  /\ smpc = "idle"
  /\ smorder = <<>>
  /\ smk = 0
  /\ sindx = 0
  /\ smpassed = <<>>
  /\ smsum = 0
  /\ smout = [i \in SumIds |-> 0]
  /\ smleft = 2
  /\ smcalls = <<>>

\* matrix_setelement with row and column exchanged: only (0,0) is in bounds
matrix_setelement_swapped(m, i, x) == IF i = 0 THEN [m EXCEPT ![0] = x] ELSE m

\* matrix_setelement(new, 0, i, result)
matrix_setelement(m, i, x) == [m EXCEPT ![i] = x]

imageids == functional_symmetryimagelist(smconn, TRUE)

\* functional.total(mesh [, selection]) or functional.integrand(...): the
\* part of functional_sumintegrand / functional_mapintegrand before the loop
SumIntegrandCall ==
  /\ smpc \in {"idle", "done"}
  /\ smleft > 0
  /\ smleft' = smleft - 1
  /\ \E kind \in {"total", "integrand"}, hasSel \in BOOLEAN :
       \E order \in LoopOrders(hasSel, SumIds) :
         \* a further call is given the arguments of the one before
         /\ smpc = "done" => order = smorder
         /\ smpc' = kind
         /\ smorder' = order
  /\ smk' = 1
  /\ sindx' = 0
  /\ smpassed' = <<>>
  /\ smsum' = 0
  /\ smout' = [i \in SumIds |-> 0]
  /\ UNCHANGED <<smconn, smval>>
  /\ UNCHANGED smcalls
  /\ UNCHANGED notSM

SumLooping == smpc \in {"total", "integrand"} /\ smk <= Len(smorder)

SumImageHit ==
  Len(imageids) > 0 /\ sindx < Len(imageids) /\ imageids[sindx + 1] = smorder[smk]

\* "Skip this element if it's an image element": sindx++; continue
SumIntegrandSkip ==
  /\ SumLooping
  /\ SumImageHit
  /\ sindx' = sindx + 1
  /\ smk' = smk + 1
  /\ UNCHANGED <<smconn, smval, smpc, smorder, smpassed, smsum, smout>>
  /\ UNCHANGED <<smleft, smcalls>>
  /\ UNCHANGED notSM

\* the integrand is called for element i and succeeds
SumIntegrandEval ==
  /\ SumLooping
  /\ ~SumImageHit
  /\ LET i == smorder[smk] IN
       /\ smpassed' = Append(smpassed, i)
       /\ smsum' = IF smpc = "total" THEN smsum + smval[i] ELSE smsum
       /\ smout' = IF smpc = "integrand" THEN matrix_setelement(smout, i, smval[i])
                  ELSE smout
  /\ smk' = smk + 1
  /\ UNCHANGED <<smconn, smval, smpc, smorder, sindx>>
  /\ UNCHANGED <<smleft, smcalls>>
  /\ UNCHANGED notSM

\* the integrand is called for element i and fails: goto cleanup
SumIntegrandFail ==
  /\ SumLooping
  /\ ~SumImageHit
  /\ smpassed' = Append(smpassed, smorder[smk])
  /\ smpc' = "failed"
  /\ UNCHANGED <<smconn, smval, smorder, smk, sindx, smsum, smout>>
  /\ UNCHANGED <<smleft, smcalls>>
  /\ UNCHANGED notSM

\* the loop is over: *out is set and the function returns true
SumIntegrandReturn ==
  /\ smpc \in {"total", "integrand"}
  /\ smk > Len(smorder)
  /\ smpc' = "done"
  /\ smcalls' = Append(smcalls, [kind |-> smpc, sum |-> smsum, out |-> smout,
                                  passed |-> smpassed])
  /\ UNCHANGED <<smconn, smval, smorder, smk, sindx, smpassed, smsum, smout>>
  /\ UNCHANGED smleft
  /\ UNCHANGED notSM

SMNext ==
  \/ SumIntegrandCall
  \/ SumIntegrandSkip
  \/ SumIntegrandEval
  \/ SumIntegrandFail
  \/ SumIntegrandReturn

(***************************************************************************)
(* functional_mapgradient and functional_symmetrysumforces (functional.c)  *)
(*                                                                         *)
(* The functional is Length (grade 1, SYMMETRY_ADD) on a line mesh in one  *)
(* dimension: GradVerts vertices on a path, vertex v joined to v+1.        *)
(***************************************************************************)
GradVerts == 3
MaxSymPairs == 2

GradVertexIds == 0 .. GradVerts - 1
GradLineIds == 0 .. GradVerts - 2

Sign(x) == IF x > 0 THEN 1 ELSE IF x < 0 THEN -1 ELSE 0

\* length_gradient: s0 = x1 - x0; frc[vid0] -= s0/|s0|; frc[vid1] += s0/|s0|
length_gradient_ok(x, l) == x[LineVertices(l)[2]] # x[LineVertices(l)[1]]

length_gradient(x, l, f) ==
  LET v0 == LineVertices(l)[1]
      v1 == LineVertices(l)[2]
      s0 == x[v1] - x[v0]
  IN [f EXCEPT ![v0] = @ - Sign(s0), ![v1] = @ + Sign(s0)]

\* The body of the loop of functional_symmetrysumforces for the key (i,j):
\* both columns are set to the sum of the two
functional_symmetrysumforces_pair(f, key) ==
  LET fsum == f[key[1]] + f[key[2]]
  IN [f EXCEPT ![key[1]] = fsum, ![key[2]] = fsum]

GRIdle ==
  /\ gx = <<>> /\ gsym = <<>> /\ gpc = "off" /\ gsymbhvr = "NONE" /\ gorder = <<>>
  /\ gk = 0 /\ gctr = <<>> /\ frc = <<>>

GRInit ==
  /\ gx \in [GradVertexIds -> 0 .. MaxCoord]
  /\ gsym \in DokKeyLists(GradVertexIds, MaxSymPairs)
  /\ gpc = "idle"
  /\ gsymbhvr = "NONE"
  /\ gorder = <<>>
  /\ gk = 0
  /\ gctr = <<>>
  /\ frc = [v \in GradVertexIds |-> 0]

\* functional.gradient(mesh [, selection]): a zero force matrix is created
GradientCall ==
  /\ gpc = "idle"
  /\ \E hasSel \in BOOLEAN, sym \in {"NONE", "ADD"} :
       \E order \in LoopOrders(hasSel, GradLineIds) :
         /\ gorder' = order
         /\ gsymbhvr' = sym
  /\ gpc' = "grad"
  /\ gk' = 1
  /\ gctr' = <<>>
  /\ frc' = [v \in GradVertexIds |-> 0]
  /\ UNCHANGED <<gx, gsym>>
  /\ UNCHANGED notGR

\* (*grad)(v, mesh, i, nv, vid, ref, frc) succeeds for the next element
GradientElement ==
  /\ gpc = "grad"
  /\ gk <= Len(gorder)
  /\ length_gradient_ok(gx, gorder[gk])
  /\ frc' = length_gradient(gx, gorder[gk], frc)
  /\ gk' = gk + 1
  /\ UNCHANGED <<gx, gsym, gpc, gsymbhvr, gorder, gctr>>
  /\ UNCHANGED notGR

\* the gradient of the next element fails: goto cleanup, the matrix is freed
GradientElementFail ==
  /\ gpc = "grad"
  /\ gk <= Len(gorder)
  /\ ~length_gradient_ok(gx, gorder[gk])
  /\ gpc' = "failed"
  /\ UNCHANGED <<gx, gsym, gsymbhvr, gorder, gk, gctr, frc>>
  /\ UNCHANGED notGR

\* the element loop is over: with SYMMETRY_ADD the forces are summed over
\* the keys of C(0,0), from sparsedok_loopstart on
GradientLoopEnd ==
  /\ gpc = "grad"
  /\ gk > Len(gorder)
  /\ IF gsymbhvr = "ADD"
     THEN gpc' = "sym" /\ gctr' = DokLoop(gsym)
     ELSE gpc' = "done" /\ gctr' = <<>>
  /\ UNCHANGED <<gx, gsym, gsymbhvr, gorder, gk, frc>>
  /\ UNCHANGED notGR

\* one turn of the loop of functional_symmetrysumforces
SymmetrySumForcesStep ==
  /\ gpc = "sym"
  /\ gctr # <<>>
  /\ frc' = functional_symmetrysumforces_pair(frc, Head(gctr))
  /\ gctr' = Tail(gctr)
  /\ UNCHANGED <<gx, gsym, gpc, gsymbhvr, gorder, gk>>
  /\ UNCHANGED notGR

\* sparsedok_loop returns false: the gradient is returned
SymmetrySumForcesEnd ==
  /\ gpc = "sym"
  /\ gctr = <<>>
  /\ gpc' = "done"
  /\ UNCHANGED <<gx, gsym, gsymbhvr, gorder, gk, gctr, frc>>
  /\ UNCHANGED notGR

GRNext ==
  \/ GradientCall
  \/ GradientElement
  \/ GradientElementFail
  \/ GradientLoopEnd
  \/ SymmetrySumForcesStep
  \/ SymmetrySumForcesEnd

(***************************************************************************)
(* OptimizationProblem (optimize.morpho)                                   *)
(*                                                                         *)
(* Meshes, fields and selections are objects, compared by identity: each   *)
(* is a number.  Refinement makes a new object for an old one.             *)
(***************************************************************************)
Nil == 0

MaxRecords == 1   \* energies, constraints and local constraints added

\* the values functional.total returns
Totals == {0, 1}

MeshIds == {1}
FieldIds == {2}        \* the field the problem is told about
OtherFieldIds == {3}   \* a second field, held by a functional only
SelectionIds == {4}
Refined(o) == o + 4
FuncIds == {1}

\* A dictionary is a set of pairs <<key, value>>.
DictKeys(dict) == { kv[1] : kv \in dict }
DictContains(dict, k) == k \in DictKeys(dict)
DictGet(dict, k) == (CHOOSE kv \in dict : kv[1] = k)[2]

\* The dictionaries MeshRefiner.refine returns: the mesh and each of the
\* refiner's targets (fields, selections), old object -> new object.
RefineDicts ==
  { { <<o, Refined(o)>> : o \in MeshIds \cup K } :
      K \in SUBSET (FieldIds \cup OtherFieldIds \cup SelectionIds) }

NoField == [kind |-> "none", val |-> <<>>]
OneField(f) == [kind |-> "field", val |-> <<f>>]
FieldList(l) == [kind |-> "list", val |-> l]

Energy(func) == [functional |-> func, selection |-> Nil, prefactor |-> Nil]

Constraint(func, target) ==
  [functional |-> func, target |-> target, field |-> Nil, selection |-> Nil,
   onesided |-> FALSE]

\* functional.total(self.mesh, selection) / functional.total(self.mesh)
Total(func, selection) == ftotal[<<func, selection # Nil>>]

\* addconstraint: var target
addconstraint_target_mesh(func, selection) == Total(func, Nil)

addconstraint_target(func, selection) ==
  IF selection # Nil THEN Total(func, selection) ELSE Total(func, Nil)

\* addlocalconstraint(..., target=0): the target the record gets
addlocalconstraint_target_one(given, target) == IF given THEN target ELSE 1

addlocalconstraint_target(given, target) == IF given THEN target ELSE 0

NoCall == [op |-> "none", hastarget |-> FALSE]

Records == Len(energies) + Len(constraints) + Len(localconstraints)

OPIdle ==
  /\ mesh = Nil /\ fields = <<>> /\ energies = <<>> /\ constraints = <<>>
  /\ localconstraints = <<>> /\ funcfield = <<>> /\ ftotal = <<>>
  /\ refmap = {} /\ pcall = NoCall

OPInit ==
  /\ mesh \in MeshIds
  /\ fields = <<>>
  /\ energies = <<>>
  /\ constraints = <<>>
  /\ localconstraints = <<>>
  /\ funcfield \in [FuncIds -> {NoField, OneField(2), FieldList(<<2, 3>>)}]
  /\ ftotal \in [FuncIds \X BOOLEAN -> Totals]
  /\ refmap \in RefineDicts
  /\ pcall = NoCall

addenergy ==
  \E func \in FuncIds, selection \in SelectionIds \cup {Nil} :
    /\ Records < MaxRecords
    /\ energies' = Append(energies, [Energy(func) EXCEPT !.selection = selection])
    /\ pcall' = [NoCall EXCEPT !.op = "addenergy"]
    /\ UNCHANGED <<mesh, fields, constraints, localconstraints, funcfield, ftotal, refmap>>
    /\ UNCHANGED notOP

addfield ==
  \E field \in FieldIds :
    /\ Len(fields) < Cardinality(FieldIds)
    /\ fields' = Append(fields, field)
    /\ pcall' = [NoCall EXCEPT !.op = "addfield"]
    /\ UNCHANGED <<mesh, energies, constraints, localconstraints, funcfield, ftotal, refmap>>
    /\ UNCHANGED notOP

addconstraint ==
  \E func \in FuncIds, selection \in SelectionIds \cup {Nil},
     field \in FieldIds \cup {Nil} :
    /\ Records < MaxRecords
    /\ constraints' = Append(constraints,
         [Constraint(func, addconstraint_target(func, selection))
            EXCEPT !.selection = selection, !.field = field])
    /\ pcall' = [NoCall EXCEPT !.op = "addconstraint"]
    /\ UNCHANGED <<mesh, fields, energies, localconstraints, funcfield, ftotal, refmap>>
    /\ UNCHANGED notOP

addlocalconstraint ==
  \E func \in FuncIds, selection \in SelectionIds \cup {Nil},
     field \in FieldIds \cup {Nil}, onesided \in BOOLEAN,
     given \in BOOLEAN, target \in Totals :
    /\ Records < MaxRecords
    /\ given \/ target = 0
    /\ localconstraints' = Append(localconstraints,
         [Constraint(func, addlocalconstraint_target(given, target))
            EXCEPT !.selection = selection, !.onesided = onesided,
                   !.field = field])
    /\ pcall' = [NoCall EXCEPT !.op = "addlocalconstraint", !.hastarget = given]
    /\ UNCHANGED <<mesh, fields, energies, constraints, funcfield, ftotal, refmap>>
    /\ UNCHANGED notOP

\* One reference looked up in the dictionary
Updated(dict, ref) == IF DictContains(dict, ref) THEN DictGet(dict, ref) ELSE ref

\* updatelist, the part that changes the record en
updatelist_record(en, dict) ==
  LET hasfield == "field" \in DOMAIN en
      en1 == [en EXCEPT !.selection = Updated(dict, en.selection)]
  IN IF hasfield THEN [en1 EXCEPT !.field = Updated(dict, en.field)] ELSE en1

updatelist_functional_single(ff, dict) ==
  IF ff.kind = "field" THEN [kind |-> "field", val |-> <<Updated(dict, ff.val[1])>>]
  ELSE ff

\* updatelist, the part that changes the functional's field property
updatelist_functional(ff, dict) ==
  CASE ff.kind = "field" -> OneField(Updated(dict, ff.val[1]))
    [] ff.kind = "list" ->
         FieldList([n \in DOMAIN ff.val |-> Updated(dict, ff.val[n])])
    [] OTHER -> ff

\* updatelist: the functional field properties after the loop over lst
RECURSIVE updatelist_functionals(_, _, _)
updatelist_functionals(lst, dict, ff) ==
  IF lst = <<>> THEN ff
  ELSE LET func == Head(lst).functional
       IN updatelist_functionals(Tail(lst), dict,
            [ff EXCEPT ![func] = updatelist_functional(ff[func], dict)])

updatelist(lst, dict) == [n \in DOMAIN lst |-> updatelist_record(lst[n], dict)]

update ==
  LET dict == refmap IN
    /\ mesh' = Updated(dict, mesh)
    /\ fields' = [n \in DOMAIN fields |-> Updated(dict, fields[n])]
    /\ energies' = updatelist(energies, dict)
    /\ constraints' = updatelist(constraints, dict)
    /\ localconstraints' = updatelist(localconstraints, dict)
    /\ funcfield' = updatelist_functionals(
                      energies \o constraints \o localconstraints, dict, funcfield)
    /\ pcall' = [NoCall EXCEPT !.op = "update"]
    /\ UNCHANGED <<ftotal, refmap>>
    /\ UNCHANGED notOP

\* Optimizer.step / settarget: the vertex positions or the field values move,
\* and with them what the functionals evaluate to.
ProblemStep ==
  \E t \in [FuncIds \X BOOLEAN -> Totals] :
    /\ t # ftotal
    /\ ftotal' = t
    /\ pcall' = [NoCall EXCEPT !.op = "step"]
    /\ UNCHANGED <<mesh, fields, energies, constraints, localconstraints, funcfield,
                   refmap>>
    /\ UNCHANGED notOP

OPNext ==
  \/ addenergy
  \/ addfield
  \/ addconstraint
  \/ addlocalconstraint
  \/ update
  \/ ProblemStep

(***************************************************************************)
(* MeshRefiner (meshtools): a mesh of RVerts vertices on a line, joined by *)
(* the lines <<i, i+1>>; ids count from 0.                                 *)
(***************************************************************************)
RVerts == 4

RVertexIds == 0..(RVerts - 1)
RLineIds == 0..(RVerts - 2)
RLineVertices(i) == <<i, i + 1>>

\* An entry of a refinement dictionary: an old id, or a list of old ids
MapInt(id) == [list |-> FALSE, ids |-> <<id>>]
MapList(l) == [list |-> TRUE, ids |-> l]

\* split: the lines whose midpoint is added, in the order of the loop; the
\* midpoint of the n-th of them gets the id RVerts + n - 1.
RECURSIVE SplitLines(_, _)
SplitLines(i, S) ==
  IF i > RVerts - 2 THEN <<>>
  ELSE (IF i \in S THEN <<i>> ELSE <<>>) \o SplitLines(i + 1, S)

\* refinemesh, vdict: the old vertices, then dict[id]=[el[i],el[j]]
VertexDict(S) ==
  LET split == SplitLines(0, S)
  IN [id \in 0..(RVerts + Len(split) - 1) |->
        IF id < RVerts THEN MapInt(id)
        ELSE MapList(RLineVertices(split[id - RVerts + 1]))]

\* refine1 / addelement: the old line of every new line, in id order
RECURSIVE LineParents(_, _)
LineParents(i, S) ==
  IF i > RVerts - 2 THEN <<>>
  ELSE (IF i \in S THEN <<i, i>> ELSE <<i>>) \o LineParents(i + 1, S)

LineDict(S) ==
  LET parents == LineParents(0, S)
  IN [id \in 0..(Len(parents) - 1) |-> MapInt(parents[id + 1])]

\* A field: shape[g + 1] items on every element of grade g; val gives the
\* item k of element id of grade g at <<g, id, k>>
NoFieldData == [shape |-> <<0, 0>>, val |-> <<>>]
RFieldValues == {0, 2}
RShapes == { <<1, 0>>, <<2, 0>>, <<0, 1>>, <<1, 1>> }

FieldIndices(shape, ids) ==
  { <<g, id, k>> \in (0..1) \X (ids[1] \cup ids[2]) \X (0..1) :
      id \in ids[g + 1] /\ k < shape[g + 1] }

MRIdle ==
  /\ refinemap = <<>> /\ rsel = <<>> /\ rresult = <<>> /\ rpc = "off"
  /\ rfield = NoFieldData /\ rnewfield = NoFieldData

MRInit ==
  /\ refinemap = <<>> /\ rsel = <<>> /\ rresult = <<>> /\ rpc = "new"
  /\ rfield = NoFieldData /\ rnewfield = NoFieldData

\* refinemesh(selection=nil): without a selection every line is split
refinemesh ==
  \E hasSel \in BOOLEAN, selection \in SUBSET RLineIds :
    /\ rpc = "new"
    /\ hasSel \/ selection = RLineIds
    /\ refinemap' = <<VertexDict(selection), LineDict(selection)>>
    /\ rpc' = "refined"
    /\ UNCHANGED <<rsel, rresult, rfield, rnewfield>>
    /\ UNCHANGED notMR

\* refineselection, one grade: dict is refinemap[g], ids the selected ids
refineselection_grade(dict, ids) ==
  IF ids = {} THEN {}
  ELSE { id \in DOMAIN dict : ~dict[id].list /\ dict[id].ids[1] \in ids }

refineselection ==
  \E sel \in [1..2 -> SUBSET RVertexIds] :
    /\ rpc \in {"refined", "selected"}
    /\ sel[2] \subseteq RLineIds
    /\ rsel' = sel
    /\ rresult' = [g \in 1..2 |-> refineselection_grade(refinemap[g], sel[g])]
    /\ rpc' = "selected"
    /\ UNCHANGED <<refinemap, rfield, rnewfield>>
    /\ UNCHANGED notMR

\* field.enumerate(0): the first value the field stores
FieldPrototype(field) ==
  IF field.shape[1] > 0 THEN field.val[<<0, 0, 0>>] ELSE field.val[<<1, 0, 0>>]

\* refinefield: what result[g, id] is set to for the entry map of the dictionary
refinefield_value(field, g, map) ==
  IF map.list
  THEN SeqSum([i \in DOMAIN map.ids |-> field.val[<<g, map.ids[i], 0>>]]) \div Len(map.ids)
  ELSE field.val[<<g, map.ids[1], 0>>]

refinefield ==
  \E shape \in RShapes :
    \E val \in [FieldIndices(shape, <<RVertexIds, RLineIds>>) -> RFieldValues] :
      /\ rpc = "refined"
      /\ rfield' = [shape |-> shape, val |-> val]
      /\ rnewfield' =
           [shape |-> shape,
            val |-> [x \in FieldIndices(shape, <<DOMAIN refinemap[1], DOMAIN refinemap[2]>>) |->
                       IF x[3] = 0
                       THEN refinefield_value(rfield', x[1], refinemap[x[1] + 1][x[2]])
                       ELSE FieldPrototype(rfield')]]
      /\ rpc' = "fielded"
      /\ UNCHANGED <<refinemap, rsel, rresult>>
      /\ UNCHANGED notMR

MRNext ==
  \/ refinemesh
  \/ refineselection
  \/ refinefield

(***************************************************************************)
(* Optimizer (optimize.morpho): relax, linesearch, conjugategradient       *)
(*                                                                         *)
(* The target is one grid value; energies and constraint residuals are     *)
(* whatever the functionals return, any value of the grid.                 *)
(***************************************************************************)
MaxConstraints == 2       \* active global constraints
MaxIter == 2              \* n
maxconstraintsteps == 2   \* self.maxconstraintsteps (20)
MaxBracketIter == 1       \* the bound on iter in bracketstepsize (10)
linminmax == 1            \* self.linminmax (10)
ctol == 1                 \* self.ctol, one grid unit

\* the values a target takes, and the values totalenergy() returns
Positions == {0, 1}
Energies == {0, 1}
\* cons.target-self.total(cons): within ctol, and beyond it on either side
Residuals == {0 - ctol, 0, 2 * ctol}
LocalConstraintCounts == {0, 1}
\* step sizes are whole multiples of a unit that bracketstepsize can halve
\* as often as it adjusts; self.stepsize starts at StepSize0 (0.1)
StepSize0 == 2 ^ (MaxBracketIter + 2)
\* self.steplimit (0.5), below and above the first step size
StepLimits == {StepSize0 \div 2, 4 * StepSize0}

\* linesearch / conjugategradient without the test against steplimit
clamp_none(s, lim) == s

\* if (self.stepsize > self.steplimit) self.stepsize = self.steplimit
clamp(s, lim) == IF s > lim THEN lim ELSE s

\* Matrix.norm: the square of the Frobenius norm
normsq_first(dv) == dv[1] * dv[1]

normsq(dv) == SeqSum([n \in DOMAIN dv |-> dv[n] * dv[n]])

\* settarget(v): the target afterwards (cur is the target before)
settarget_keep(v, cur) == cur

settarget(v, cur) == v

\* hasconverged without the test of the relative change
hasconverged_absolute(hist) ==
  /\ Len(hist) > 1
  /\ hist[Len(hist)] = 0

\* hasconverged, with etol below one grid unit
hasconverged(hist) ==
  /\ Len(hist) > 1
  /\ (hist[Len(hist)] = 0 \/ hist[Len(hist)] = hist[Len(hist) - 1])

NoIter == [i |-> -1, target |-> 0, energy |-> <<>>]

OIdle ==
  /\ otarget = 0 /\ energy = <<>> /\ nc = 0 /\ opc = "off" /\ method = "none"
  /\ on = 0 /\ oi = 0 /\ iterstart = NoIter /\ bracket = <<>> /\ biter = 0
  /\ bfail = FALSE /\ bk = 0 /\ vsave = 0 /\ eret = "none" /\ sret = "none"
  /\ rci = 0 /\ rdv = <<>> /\ warned = FALSE /\ oerror = "none"
  /\ nadj = 0 /\ nlc = 0 /\ lci = 0 /\ lcwarned = FALSE
  /\ stepsize = 0 /\ steplimit = 0 /\ bs = <<>> /\ size = 0

OInit ==
  /\ otarget \in Positions /\ energy = <<>> /\ nc \in {0, MaxConstraints}
  /\ opc = "idle" /\ method = "none"
  /\ on = 0 /\ oi = 0 /\ iterstart = NoIter /\ bracket = <<>> /\ biter = 0
  /\ bfail = FALSE /\ bk = 0 /\ vsave = 0 /\ eret = "none" /\ sret = "none"
  /\ rci = 0 /\ rdv = <<>> /\ warned = FALSE /\ oerror = "none"
  /\ nadj = 0 /\ nlc \in LocalConstraintCounts /\ lci = 0 /\ lcwarned = FALSE
  /\ stepsize = StepSize0 /\ steplimit \in StepLimits /\ bs = <<>> /\ size = 0

\* relax(n) / linesearch(n) / conjugategradient(n), up to the loop
OptimizerCall(m) ==
  \E n \in 1..MaxIter, e \in Energies :
    /\ opc = "idle"
    /\ method' = m
    /\ on' = n
    /\ energy' = IF Len(energy) = 0 THEN Append(energy, e) ELSE energy
    /\ oi' = 0
    /\ opc' = "loop"
    /\ UNCHANGED <<otarget, nc, iterstart, bracket, biter, bfail, bk, vsave, eret,
                   sret, rci, rdv, warned, oerror>>
    /\ UNCHANGED nadj
    /\ UNCHANGED <<nlc, lci, lcwarned>>
    /\ UNCHANGED <<stepsize, steplimit, bs, size>>
    /\ UNCHANGED notO

relax == OptimizerCall("relax")

linesearch == OptimizerCall("linesearch")

conjugategradient == OptimizerCall("conjugategradient")

\* for (i in 0...n): self.force = ..., then step or dolinesearch
IterationStart ==
  /\ opc = "loop"
  /\ oi < on
  /\ iterstart' = [i |-> oi, target |-> otarget, energy |-> energy]
  /\ opc' = IF method = "relax" THEN "mainstep" ELSE "bracket"
  /\ UNCHANGED <<otarget, energy, nc, method, on, oi, bracket, biter, bfail, bk,
                 vsave, eret, sret, rci, rdv, warned, oerror>>
  /\ UNCHANGED nadj
  /\ UNCHANGED <<nlc, lci, lcwarned>>
  /\ UNCHANGED <<stepsize, steplimit, bs, size>>
  /\ UNCHANGED notO

LoopExit ==
  /\ opc = "loop"
  /\ oi = on
  /\ opc' = "returned"
  /\ UNCHANGED <<otarget, energy, nc, method, on, oi, iterstart, bracket, biter,
                 bfail, bk, vsave, eret, sret, rci, rdv, warned, oerror>>
  /\ UNCHANGED nadj
  /\ UNCHANGED <<nlc, lci, lcwarned>>
  /\ UNCHANGED <<stepsize, steplimit, bs, size>>
  /\ UNCHANGED notO

\* bracketstepsize: s = [0, self.stepsize, 2*self.stepsize],
\* bracket[0] = self.totalenergy(), then the first trial step
BracketStart ==
  \E e \in Energies :
    /\ opc = "bracket"
    /\ bs' = <<stepsize, 2 * stepsize>>
    /\ size' = stepsize
    /\ bracket' = <<e, 0, 0>>
    /\ biter' = 0
    /\ nadj' = 0
    /\ eret' = "bracket1"
    /\ opc' = "energywithstepsize"
    /\ UNCHANGED <<otarget, energy, nc, method, on, oi, iterstart, bfail, bk, vsave,
                   sret, rci, rdv, warned, oerror>>
    /\ UNCHANGED <<nlc, lci, lcwarned>>
    /\ UNCHANGED <<stepsize, steplimit>>
    /\ UNCHANGED notO

\* energywithstepsize: var vsave = target.clone(); self.step(size)
EnergyWithStepsizeCall ==
  /\ opc = "energywithstepsize"
  /\ vsave' = otarget
  /\ sret' = "energywithstepsize"
  /\ opc' = "step"
  /\ UNCHANGED <<otarget, energy, nc, method, on, oi, iterstart, bracket, biter,
                 bfail, bk, eret, rci, rdv, warned, oerror>>
  /\ UNCHANGED nadj
  /\ UNCHANGED <<nlc, lci, lcwarned>>
  /\ UNCHANGED <<stepsize, steplimit, bs, size>>
  /\ UNCHANGED notO

\* step: target.acc(-stepsize, frc), then the two reprojections
Step ==
  \E v \in Positions :
    /\ opc = "step"
    /\ otarget' = v
    /\ rci' = 0
    /\ rdv' = <<>>
    /\ warned' = FALSE
    /\ lci' = 0
    /\ lcwarned' = FALSE
    /\ opc' = "reprojectlocalconstraints"
    /\ UNCHANGED <<energy, nc, method, on, oi, iterstart, bracket, biter, bfail, bk,
                   vsave, eret, sret, oerror>>
    /\ UNCHANGED nadj
    /\ UNCHANGED nlc
    /\ UNCHANGED <<stepsize, steplimit, bs, size>>
    /\ UNCHANGED notO

\* reprojectlocalconstraints: no local constraint, or lcnorm(dv) <= ctol
ReprojectLocalSkip ==
  /\ opc = "reprojectlocalconstraints"
  /\ opc' = "localreprojected"
  /\ UNCHANGED <<lci, lcwarned>>
  /\ UNCHANGED <<otarget, energy, nc, method, on, oi, iterstart, bracket, biter,
                 bfail, bk, vsave, eret, sret, rci, rdv, warned, oerror>>
  /\ UNCHANGED <<nadj, nlc>>
  /\ UNCHANGED <<stepsize, steplimit, bs, size>>
  /\ UNCHANGED notO

\* reprojectlocalconstraints: lcnorm(dv) > ctol, the do loop starts
ReprojectLocalEnter ==
  /\ opc = "reprojectlocalconstraints"
  /\ nlc > 0
  /\ opc' = "localloop"
  /\ UNCHANGED <<lci, lcwarned>>
  /\ UNCHANGED <<otarget, energy, nc, method, on, oi, iterstart, bracket, biter,
                 bfail, bk, vsave, eret, sret, rci, rdv, warned, oerror>>
  /\ UNCHANGED <<nadj, nlc>>
  /\ UNCHANGED <<stepsize, steplimit, bs, size>>
  /\ UNCHANGED notO

\* reprojectlocalconstraints: one pass of the do loop; over is residual>ctol
ReprojectLocalIterate ==
  \E v \in Positions, over \in BOOLEAN :
    /\ opc = "localloop"
    /\ otarget' = v
    /\ lci' = lci + 1
    /\ lcwarned' = (lci + 1 > maxconstraintsteps /\ over)
    /\ opc' = IF lci + 1 > maxconstraintsteps /\ over THEN "localreprojected"
              ELSE IF over THEN "localloop"
              ELSE "localreprojected"
    /\ UNCHANGED <<energy, nc, method, on, oi, iterstart, bracket, biter, bfail, bk, vsave, eret, sret, rci, rdv, warned, oerror, nadj, nlc>>
    /\ UNCHANGED <<stepsize, steplimit, bs, size>>
    /\ UNCHANGED notO

\* reprojectlocalconstraints: var sol = Matrix(va)/m raises MATRIX_SINGULAR
ReprojectLocalSingular ==
  /\ opc = "localloop"
  /\ oerror' = "MATRIX_SINGULAR"
  /\ opc' = "halted"
  /\ UNCHANGED <<lci, lcwarned>>
  /\ UNCHANGED <<otarget, energy, nc, method, on, oi, iterstart, bracket, biter,
                 bfail, bk, vsave, eret, sret, rci, rdv, warned>>
  /\ UNCHANGED <<nadj, nlc>>
  /\ UNCHANGED <<stepsize, steplimit, bs, size>>
  /\ UNCHANGED notO

\* reprojectlocalconstraints returns; step calls reprojectconstraints
ReprojectLocalReturn ==
  /\ opc = "localreprojected"
  /\ lci' = 0
  /\ lcwarned' = FALSE
  /\ opc' = "reprojectconstraints"
  /\ UNCHANGED <<otarget, energy, nc, method, on, oi, iterstart, bracket, biter,
                 bfail, bk, vsave, eret, sret, rci, rdv, warned, oerror>>
  /\ UNCHANGED <<nadj, nlc>>
  /\ UNCHANGED <<stepsize, steplimit, bs, size>>
  /\ UNCHANGED notO

\* reprojectconstraints: if (nc>0) fails
ReprojectNoConstraints ==
  /\ opc = "reprojectconstraints"
  /\ nc = 0
  /\ opc' = "reprojected"
  /\ UNCHANGED <<otarget, energy, nc, method, on, oi, iterstart, bracket, biter,
                 bfail, bk, vsave, eret, sret, rci, rdv, warned, oerror>>
  /\ UNCHANGED nadj
  /\ UNCHANGED <<nlc, lci, lcwarned>>
  /\ UNCHANGED <<stepsize, steplimit, bs, size>>
  /\ UNCHANGED notO

\* reprojectconstraints: one pass of the do loop
ReprojectIterate ==
  \E v \in Positions, dv \in [1..nc -> Residuals] :
    /\ opc = "reprojectconstraints"
    /\ nc > 0
    /\ otarget' = v
    /\ rdv' = IF rci + 1 <= maxconstraintsteps /\ normsq(dv) > ctol * ctol
              THEN <<>> ELSE dv
    /\ rci' = rci + 1
    /\ warned' = (rci + 1 > maxconstraintsteps)
    /\ opc' = IF rci + 1 > maxconstraintsteps THEN "reprojected"
              ELSE IF normsq(dv) > ctol * ctol THEN "reprojectconstraints"
              ELSE "reprojected"
    /\ UNCHANGED <<energy, nc, method, on, oi, iterstart, bracket, biter, bfail, bk,
                   vsave, eret, sret, oerror>>
    /\ UNCHANGED nadj
    /\ UNCHANGED <<nlc, lci, lcwarned>>
    /\ UNCHANGED <<stepsize, steplimit, bs, size>>
    /\ UNCHANGED notO

\* reprojectconstraints: var sol = dv/m raises MATRIX_SINGULAR
ReprojectSingular ==
  /\ opc = "reprojectconstraints"
  /\ nc > 0
  /\ oerror' = "MATRIX_SINGULAR"
  /\ opc' = "halted"
  /\ UNCHANGED <<otarget, energy, nc, method, on, oi, iterstart, bracket, biter,
                 bfail, bk, vsave, eret, sret, rci, rdv, warned>>
  /\ UNCHANGED nadj
  /\ UNCHANGED <<nlc, lci, lcwarned>>
  /\ UNCHANGED <<stepsize, steplimit, bs, size>>
  /\ UNCHANGED notO

\* step returns to its caller
StepReturn ==
  /\ opc = "reprojected"
  /\ opc' = IF sret = "energywithstepsize" THEN "energy" ELSE "append"
  /\ rci' = 0
  /\ rdv' = <<>>
  /\ warned' = FALSE
  /\ sret' = "none"
  /\ size' = IF sret = "main" THEN 0 ELSE size
  /\ UNCHANGED <<otarget, energy, nc, method, on, oi, iterstart, bracket, biter,
                 bfail, bk, vsave, eret, oerror>>
  /\ UNCHANGED nadj
  /\ UNCHANGED <<nlc, lci, lcwarned>>
  /\ UNCHANGED <<stepsize, steplimit, bs>>
  /\ UNCHANGED notO

\* energywithstepsize: var energy=self.totalenergy(); self.settarget(vsave);
\* return energy, to bracketstepsize or to brent
EnergyWithStepsizeReturn ==
  \E e \in Energies :
    /\ opc = "energy"
    /\ otarget' = settarget(vsave, otarget)
    /\ vsave' = 0
    /\ eret' = IF eret = "bracket1" THEN "bracket2" ELSE "none"
    /\ size' = IF eret = "bracket1" THEN bs[2] ELSE 0
    /\ bracket' = CASE eret \in {"bracket1", "shrink"} -> [bracket EXCEPT ![2] = e]
                    [] eret \in {"bracket2", "grow"} -> [bracket EXCEPT ![3] = e]
                    [] OTHER -> bracket
    /\ opc' = CASE eret = "bracket1" -> "energywithstepsize"
                [] eret = "bracket2" -> "bracketloop"
                [] eret \in {"grow", "shrink"} -> "bracketiter"
                [] OTHER -> "brent"
    /\ UNCHANGED <<energy, nc, method, on, oi, iterstart, biter, bfail, bk, sret,
                   rci, rdv, warned, oerror>>
    /\ UNCHANGED nadj
    /\ UNCHANGED <<nlc, lci, lcwarned>>
    /\ UNCHANGED <<stepsize, steplimit, bs>>
    /\ UNCHANGED notO

\* bracketstepsize: the condition of the while loop
Bracketed == bracket[2] < bracket[1] /\ bracket[2] < bracket[3]

\* bracketstepsize returns [s, bracket]; brent starts
BracketFound ==
  /\ opc = "bracketloop"
  /\ Bracketed
  /\ bk' = 0
  /\ opc' = "brent"
  /\ UNCHANGED <<otarget, energy, nc, method, on, oi, iterstart, bracket, biter,
                 bfail, vsave, eret, sret, rci, rdv, warned, oerror>>
  /\ UNCHANGED nadj
  /\ UNCHANGED <<nlc, lci, lcwarned>>
  /\ UNCHANGED <<stepsize, steplimit, bs, size>>
  /\ UNCHANGED notO

\* Step size is too small
BracketGrow ==
  /\ opc = "bracketloop"
  /\ ~Bracketed
  /\ bracket[3] < bracket[2]
  /\ bs' = <<bs[2], 2 * bs[2]>>
  /\ size' = 2 * bs[2]
  /\ bracket' = [bracket EXCEPT ![2] = bracket[3]]
  /\ nadj' = nadj + 1
  /\ eret' = "grow"
  /\ opc' = "energywithstepsize"
  /\ UNCHANGED <<otarget, energy, nc, method, on, oi, iterstart, biter, bfail, bk,
                 vsave, sret, rci, rdv, warned, oerror>>
  /\ UNCHANGED <<nlc, lci, lcwarned>>
  /\ UNCHANGED <<stepsize, steplimit>>
  /\ UNCHANGED notO

\* Step size is too big
BracketShrink ==
  /\ opc = "bracketloop"
  /\ ~Bracketed
  /\ ~(bracket[3] < bracket[2])
  /\ bracket[2] > bracket[1]
  /\ bs' = <<bs[1] \div 2, bs[2]>>
  /\ size' = bs[1] \div 2
  /\ nadj' = nadj + 1
  /\ eret' = "shrink"
  /\ opc' = "energywithstepsize"
  /\ UNCHANGED <<otarget, energy, nc, method, on, oi, iterstart, bracket, biter,
                 bfail, bk, vsave, sret, rci, rdv, warned, oerror>>
  /\ UNCHANGED <<nlc, lci, lcwarned>>
  /\ UNCHANGED <<stepsize, steplimit>>
  /\ UNCHANGED notO

\* "Cannot resolve bracket": return nil, dolinesearch returns false, break
BracketCannotResolve ==
  /\ opc = "bracketloop"
  /\ ~Bracketed
  /\ ~(bracket[3] < bracket[2])
  /\ ~(bracket[2] > bracket[1])
  /\ bfail' = TRUE
  /\ bs' = <<>>
  /\ opc' = "returned"
  /\ UNCHANGED <<otarget, energy, nc, method, on, oi, iterstart, bracket, biter,
                 bk, vsave, eret, sret, rci, rdv, warned, oerror>>
  /\ UNCHANGED nadj
  /\ UNCHANGED <<nlc, lci, lcwarned>>
  /\ UNCHANGED <<stepsize, steplimit, size>>
  /\ UNCHANGED notO

\* if (iter>10): "Couldn't bracket stepsize", return nil, break
BracketTooMany ==
  /\ opc = "bracketiter"
  /\ biter > MaxBracketIter
  /\ bfail' = TRUE
  /\ bs' = <<>>
  /\ opc' = "returned"
  /\ UNCHANGED <<otarget, energy, nc, method, on, oi, iterstart, bracket, biter,
                 bk, vsave, eret, sret, rci, rdv, warned, oerror>>
  /\ UNCHANGED nadj
  /\ UNCHANGED <<nlc, lci, lcwarned>>
  /\ UNCHANGED <<stepsize, steplimit, size>>
  /\ UNCHANGED notO

\* iter+=1
BracketContinue ==
  /\ opc = "bracketiter"
  /\ ~(biter > MaxBracketIter)
  /\ biter' = biter + 1
  /\ opc' = "bracketloop"
  /\ UNCHANGED <<otarget, energy, nc, method, on, oi, iterstart, bracket, bfail,
                 bk, vsave, eret, sret, rci, rdv, warned, oerror>>
  /\ UNCHANGED nadj
  /\ UNCHANGED <<nlc, lci, lcwarned>>
  /\ UNCHANGED <<stepsize, steplimit, bs, size>>
  /\ UNCHANGED notO

\* brent: fv=func(x) first, then at most itermax times fu = func(u), at
\* points of the bracket
BrentEval ==
  /\ opc = "brent"
  /\ bk < 1 + linminmax
  /\ size' \in {bs[1], bs[2]}
  /\ bk' = bk + 1
  /\ eret' = "brent"
  /\ opc' = "energywithstepsize"
  /\ UNCHANGED <<otarget, energy, nc, method, on, oi, iterstart, bracket, biter,
                 bfail, vsave, sret, rci, rdv, warned, oerror>>
  /\ UNCHANGED nadj
  /\ UNCHANGED <<nlc, lci, lcwarned>>
  /\ UNCHANGED <<stepsize, steplimit, bs>>
  /\ UNCHANGED notO

\* brent returns [x, fx]; dolinesearch sets self.stepsize and returns it
BrentReturn ==
  /\ opc = "brent"
  /\ bk >= 1
  /\ stepsize' \in {bs[1], bs[2]}
  /\ bs' = <<>>
  /\ bracket' = <<>>
  /\ biter' = 0
  /\ nadj' = 0
  /\ bk' = 0
  /\ opc' = "mainstep"
  /\ UNCHANGED <<otarget, energy, nc, method, on, oi, iterstart, bfail, vsave,
                 eret, sret, rci, rdv, warned, oerror>>
  /\ UNCHANGED <<nlc, lci, lcwarned>>
  /\ UNCHANGED <<steplimit, size>>
  /\ UNCHANGED notO

\* relax: self.step(self.stepsize); linesearch / conjugategradient: the
\* test against steplimit, then self.step(self.stepsize)
MainStep ==
  /\ opc = "mainstep"
  /\ stepsize' = IF method = "relax" THEN stepsize ELSE clamp(stepsize, steplimit)
  /\ size' = stepsize'
  /\ sret' = "main"
  /\ opc' = "step"
  /\ UNCHANGED <<otarget, energy, nc, method, on, oi, iterstart, bracket, biter,
                 bfail, bk, vsave, eret, rci, rdv, warned, oerror>>
  /\ UNCHANGED nadj
  /\ UNCHANGED <<nlc, lci, lcwarned>>
  /\ UNCHANGED <<steplimit, bs>>
  /\ UNCHANGED notO

\* self.energy.append(self.totalenergy()); if (self.hasconverged()) break
AppendEnergy ==
  \E e \in Energies :
    /\ opc = "append"
    /\ energy' = Append(energy, e)
    /\ oi' = IF hasconverged(Append(energy, e)) THEN oi ELSE oi + 1
    /\ opc' = IF hasconverged(Append(energy, e)) THEN "returned" ELSE "loop"
    /\ UNCHANGED <<otarget, nc, method, on, iterstart, bracket, biter, bfail, bk,
                   vsave, eret, sret, rci, rdv, warned, oerror>>
    /\ UNCHANGED nadj
    /\ UNCHANGED <<nlc, lci, lcwarned>>
    /\ UNCHANGED <<stepsize, steplimit, bs, size>>
    /\ UNCHANGED notO

ONext ==
  \/ relax
  \/ linesearch
  \/ conjugategradient
  \/ IterationStart
  \/ LoopExit
  \/ BracketStart
  \/ EnergyWithStepsizeCall
  \/ Step
  \/ ReprojectLocalSkip
  \/ ReprojectLocalEnter
  \/ ReprojectLocalIterate
  \/ ReprojectLocalSingular
  \/ ReprojectLocalReturn
  \/ ReprojectNoConstraints
  \/ ReprojectIterate
  \/ ReprojectSingular
  \/ StepReturn
  \/ EnergyWithStepsizeReturn
  \/ BracketFound
  \/ BracketGrow
  \/ BracketShrink
  \/ BracketCannotResolve
  \/ BracketTooMany
  \/ BracketContinue
  \/ BrentEval
  \/ BrentReturn
  \/ MainStep
  \/ AppendEnergy

\* The steps a call of relax goes through
RelaxNext ==
  \/ relax
  \/ IterationStart
  \/ LoopExit
  \/ MainStep
  \/ Step
  \/ ReprojectLocalSkip
  \/ ReprojectLocalEnter
  \/ ReprojectLocalIterate
  \/ ReprojectLocalSingular
  \/ ReprojectLocalReturn
  \/ ReprojectNoConstraints
  \/ ReprojectIterate
  \/ ReprojectSingular
  \/ StepReturn
  \/ AppendEnergy

(***************************************************************************)
(* Sparse matrices (sparse.c)                                              *)
(*                                                                         *)
(* A Sparse object holds a dictionary-of-keys form (the key list, head     *)
(* first, and the dictionary from keys to values) and a compressed-column  *)
(* form that is built from it on demand.  Three objects are followed: "a", *)
(* which the program assigns to, "b", and "new", the object the last       *)
(* arithmetic operation created.  The dictionary is walked in the order of *)
(* the key list, an order that depends on the insertions made.             *)
(***************************************************************************)
MaxEntries == 2               \* entries assigned to "a"
SRows == 0..1
SCols == 0..1
SValues == {1, 2}
SparseIds == {"a", "b", "new"}

\* sparsedok_init
sparsedok_init == [keys |-> <<>>, val |-> <<>>, nrows |-> 0, ncols |-> 0]

\* sparseccs_init: cptr = <<>> stands for the NULL pointer
sparseccs_init ==
  [nrows |-> 0, ncols |-> 0, cptr |-> <<>>, rix |-> <<>>, values |-> <<>>]

\* a key added at the tail of the list
sparsedok_addkey_tail(keys, i, j) == Append(keys, <<i, j>>)

\* sparsedok_addkey: out->obj.next = dok->keys; dok->keys = out
sparsedok_addkey(keys, i, j) == << <<i, j>> >> \o keys

\* sparsedok_insert
sparsedok_insert(dok, i, j, v) ==
  IF <<i, j>> \notin DOMAIN dok.val
  THEN [keys |-> sparsedok_addkey(dok.keys, i, j),
        val |-> [k \in DOMAIN dok.val \cup {<<i, j>>} |->
                   IF k = <<i, j>> THEN v ELSE dok.val[k]],
        nrows |-> IF dok.nrows = 0 \/ i >= dok.nrows THEN i + 1 ELSE dok.nrows,
        ncols |-> IF dok.ncols = 0 \/ j >= dok.ncols THEN j + 1 ELSE dok.ncols]
  ELSE [dok EXCEPT !.val[<<i, j>>] = v]

\* object_newsparse(&nrows, &ncols) followed by the insertions of a list
RECURSIVE DokFromList(_, _)
DokFromList(dok, l) ==
  IF l = <<>> THEN dok
  ELSE DokFromList(sparsedok_insert(dok, Head(l)[1], Head(l)[2], Head(l)[3]), Tail(l))

\* The row indices of column j in the order the dictionary walk meets them
ColRows(keys, j) ==
  LET s == SelectSeq(keys, LAMBDA k : k[2] = j)
  IN [n \in DOMAIN s |-> s[n][1]]

\* A column of rix without the qsort
doktoccs_column_unsorted(keys, j) == ColRows(keys, j)

\* sparseccs_doktoccs: a column of rix after "Sort columns"
doktoccs_column(keys, j) == QSort(ColRows(keys, j))

RECURSIVE doktoccs_rix(_, _, _)
doktoccs_rix(keys, j, ncols) ==
  IF j >= ncols THEN <<>>
  ELSE doktoccs_column(keys, j) \o doktoccs_rix(keys, j + 1, ncols)

RECURSIVE doktoccs_values(_, _)
doktoccs_values(dok, j) ==
  IF j >= dok.ncols THEN <<>>
  ELSE LET c == doktoccs_column(dok.keys, j)
       IN [n \in DOMAIN c |-> dok.val[<<c[n], j>>]] \o doktoccs_values(dok, j + 1)

\* sparseccs_doktoccs, with copyvals
sparseccs_doktoccs(dok) ==
  [nrows |-> dok.nrows,
   ncols |-> dok.ncols,
   cptr |-> [i \in 1..(dok.ncols + 1) |->
              Cardinality({n \in DOMAIN dok.keys : dok.keys[n][2] < i - 1})],
   rix |-> doktoccs_rix(dok.keys, 0, dok.ncols),
   values |-> doktoccs_values(dok, 0)]

\* sparseccs_resize inside the conversion: cptr is allocated only when there
\* is a column, and realloc of zero bytes may or may not return NULL
ConversionOutcomes(dok) ==
  IF dok.ncols = 0 THEN {FALSE}
  ELSE IF dok.keys = <<>> THEN {TRUE, FALSE}
  ELSE {TRUE}

\* sparse_checkformat(s, SPARSE_CCS, true, true): the CCS form afterwards
sparse_checkformat(dok, ccs, ok) ==
  IF ccs.cptr = <<>>
  THEN (IF ok THEN sparseccs_doktoccs(dok) ELSE sparseccs_init)
  ELSE ccs

\* sparseccs_getrowindices
sparseccs_getrowindices(ccs, col) ==
  SubSeq(ccs.rix, ccs.cptr[col + 1] + 1, ccs.cptr[col + 2])

\* sparseccs_setrowindices: false when the number of entries differs
sparseccs_setrowindices(ccs, col, entries) ==
  IF Len(entries) # ccs.cptr[col + 2] - ccs.cptr[col + 1] THEN ccs
  ELSE [ccs EXCEPT !.rix = [n \in DOMAIN ccs.rix |->
          IF n > ccs.cptr[col + 1] /\ n <= ccs.cptr[col + 2]
          THEN entries[n - ccs.cptr[col + 1]] ELSE ccs.rix[n]]]

\* sparseccs_getcolindices
sparseccs_getcolindices(ccs) ==
  Ascending({i \in 0..(ccs.ncols - 1) : ccs.cptr[i + 2] # ccs.cptr[i + 1]})

\* The column of the n-th stored entry
CcsCol(ccs, n) == CHOOSE j \in 0..(ccs.ncols - 1) :
                    ccs.cptr[j + 1] < n /\ n <= ccs.cptr[j + 2]

\* The entries a CCS form stores, as (row, col, value)
CcsEntries(ccs) ==
  { <<ccs.rix[n], CcsCol(ccs, n), ccs.values[n]>> : n \in DOMAIN ccs.rix }

\* sparse_csparsetoccs of a CSparse result given by its entries
RECURSIVE KeyList(_)
KeyList(S) ==
  IF S = {} THEN <<>>
  ELSE LET k == CHOOSE x \in S : TRUE IN <<k>> \o KeyList(S \ {k})

CcsFromEntries(f, nrows, ncols) ==
  sparseccs_doktoccs([keys |-> KeyList(DOMAIN f), val |-> f,
                      nrows |-> nrows, ncols |-> ncols])

EntryKeys(E) == { <<e[1], e[2]>> : e \in E }
EntryVal(E, k) ==
  IF k \in EntryKeys(E) THEN (CHOOSE e \in E : e[1] = k[1] /\ e[2] = k[2])[3] ELSE 0

\* cs_add: alpha*A + beta*B on the union of the two patterns
cs_add(A, B, alpha, beta) ==
  [k \in EntryKeys(A) \cup EntryKeys(B) |->
     alpha * EntryVal(A, k) + beta * EntryVal(B, k)]

RECURSIVE SumOver(_, _, _, _)
SumOver(A, B, k, S) ==
  IF S = {} THEN 0
  ELSE LET m == CHOOSE x \in S : TRUE
       IN EntryVal(A, <<k[1], m>>) * EntryVal(B, <<m, k[2]>>) + SumOver(A, B, k, S \ {m})

\* cs_multiply: A*B on the pattern the stored entries produce
cs_multiply(A, B) ==
  LET mid(k) == { m \in SCols : <<k[1], m>> \in EntryKeys(A) /\ <<m, k[2]>> \in EntryKeys(B) }
      K == { k \in SRows \X SCols : mid(k) # {} }
  IN [k \in K |-> SumOver(A, B, k, mid(k))]

\* Sparse_add, Sparse_sub, Sparse_mul: the object that receives the result
\* if it were the receiver itself
Sparse_new_inplace(self) == self

\* Sparse_add, Sparse_sub, Sparse_mul: objectsparse *new = object_newsparse(NULL, NULL)
Sparse_new(self) == "new"

\* sparse_setelement: the CCS form if it were kept
sparse_setelement_ccs_keep(ccs) == ccs

\* sparse_setelement: sparse_removeformat(s, SPARSE_CCS)
sparse_setelement_ccs(ccs) == sparseccs_init

\* sparse_getelement over all indices: DOK when it is available, else CCS
SparseEntries(dok, ccs) ==
  IF (dok.ncols > 0 /\ dok.nrows > 0) \/ dok.keys # <<>>
  THEN { <<k[1], k[2], dok.val[k]>> : k \in DOMAIN dok.val }
  ELSE IF ccs.cptr # <<>> THEN CcsEntries(ccs) ELSE {}

\* Sparse_dimensions
Sparse_dimensions(dok, ccs) ==
  IF ccs.ncols > 0 THEN <<ccs.nrows, ccs.ncols>> ELSE <<dok.nrows, dok.ncols>>

\* The contents "b" is constructed with: Sparse(list)
BLists == { << <<0, 0, 1>>, <<1, 1, 1>> >>,
            << <<1, 0, 2>>, <<0, 1, 1>>, <<0, 0, 1>> >> }

NoSparseCall == [op |-> "none", self |-> "a", arg |-> "a", col |-> 0,
                 ret |-> "nil", result |-> <<>>]

SPIdle ==
  /\ sdok = <<>> /\ sccs = <<>> /\ scall = NoSparseCall
  /\ sedited = {} /\ sstale = {} /\ sinserted = <<>>

\* a = Sparse(nrows, ncols), b = Sparse(list)
SPInit ==
  /\ \E l \in BLists :
       sdok = [o \in SparseIds |->
                 IF o = "a" THEN [sparsedok_init EXCEPT !.nrows = Cardinality(SRows),
                                                        !.ncols = Cardinality(SCols)]
                 ELSE IF o = "b" THEN DokFromList(sparsedok_init, l)
                 ELSE sparsedok_init]
  /\ sccs = [o \in SparseIds |-> sparseccs_init]
  /\ scall = NoSparseCall
  /\ sedited = {}
  /\ sstale = {}
  /\ sinserted = <<>>

\* Sparse_setindex -> sparse_setelement
Sparse_setindex ==
  \E i \in SRows, j \in SCols, v \in SValues :
    /\ <<i, j>> \in DOMAIN sdok["a"].val \/ Len(sdok["a"].keys) < MaxEntries
    /\ sdok' = [sdok EXCEPT !["a"] = sparsedok_insert(@, i, j, v),
                            !["new"] = sparsedok_init]
    /\ sccs' = [sccs EXCEPT !["a"] = sparse_setelement_ccs(@),
                            !["new"] = sparseccs_init]
    /\ sstale' = IF sccs["a"].cptr # <<>> THEN sstale \cup {"a"} ELSE sstale
    /\ sinserted' = IF <<i, j>> \in DOMAIN sdok["a"].val THEN sinserted
                    ELSE Append(sinserted, <<i, j>>)
    /\ sedited' = IF sparse_setelement_ccs(sccs["a"]).cptr = <<>>
                  THEN sedited \ {"a"} ELSE sedited
    /\ scall' = [NoSparseCall EXCEPT !.op = "setindex", !.ret = "ok"]
    /\ UNCHANGED notSP

\* Sparse_rowindices
Sparse_rowindices ==
  \E self \in {"a"}, col \in SCols, ok \in BOOLEAN :
    /\ ok \in ConversionOutcomes(sdok[self])
    /\ LET ccs == sparse_checkformat(sdok[self], sccs[self], ok) IN
       /\ sccs' = [sccs EXCEPT ![self] = ccs, !["new"] = sparseccs_init]
       /\ scall' = [op |-> "rowindices", self |-> self, arg |-> self, col |-> col,
                    ret |-> IF ccs.cptr = <<>> THEN "nil"
                            ELSE IF col < ccs.ncols THEN "ok" ELSE "error",
                    result |-> IF ccs.cptr # <<>> /\ col < ccs.ncols
                               THEN sparseccs_getrowindices(ccs, col) ELSE <<>>]
    /\ sdok' = [sdok EXCEPT !["new"] = sparsedok_init]
    /\ UNCHANGED <<sedited, sstale, sinserted>>
    /\ UNCHANGED notSP

\* Sparse_colindices
Sparse_colindices ==
  \E self \in {"a"}, ok \in BOOLEAN :
    /\ ok \in ConversionOutcomes(sdok[self])
    /\ LET ccs == sparse_checkformat(sdok[self], sccs[self], ok) IN
       /\ sccs' = [sccs EXCEPT ![self] = ccs, !["new"] = sparseccs_init]
       /\ scall' = [op |-> "colindices", self |-> self, arg |-> self, col |-> 0,
                    ret |-> IF ccs.cptr = <<>> THEN "nil" ELSE "ok",
                    result |-> IF ccs.cptr # <<>>
                               THEN sparseccs_getcolindices(ccs) ELSE <<>>]
    /\ sdok' = [sdok EXCEPT !["new"] = sparsedok_init]
    /\ UNCHANGED <<sedited, sstale, sinserted>>
    /\ UNCHANGED notSP

\* Sparse_setrowindices
Sparse_setrowindices ==
  \E col \in SCols, ok \in BOOLEAN,
     entries \in [1..1 -> SRows] :
    /\ ok \in ConversionOutcomes(sdok["a"])
    /\ LET ccs == sparse_checkformat(sdok["a"], sccs["a"], ok)
           set == IF ccs.cptr # <<>> /\ col < ccs.ncols
                  THEN sparseccs_setrowindices(ccs, col, entries) ELSE ccs
       IN
       /\ sccs' = [sccs EXCEPT !["a"] = set, !["new"] = sparseccs_init]
       /\ sedited' = IF set # ccs THEN sedited \cup {"a"} ELSE sedited
       /\ scall' = [op |-> "setrowindices", self |-> "a", arg |-> "a", col |-> col,
                    ret |-> IF ccs.cptr = <<>> THEN "nil"
                            ELSE IF col < ccs.ncols /\
                                    Len(entries) = ccs.cptr[col + 2] - ccs.cptr[col + 1]
                            THEN "ok" ELSE "error",
                    result |-> <<>>]
    /\ sdok' = [sdok EXCEPT !["new"] = sparsedok_init]
    /\ UNCHANGED <<sstale, sinserted>>
    /\ UNCHANGED notSP

\* sparse_add / sparse_mul called from Sparse_add, Sparse_sub, Sparse_mul
SparseArithmetic(op, self, arg, oka, okb) ==
  LET ca == sparse_checkformat(sdok[self], sccs[self], oka)
      cb == IF arg = self THEN ca ELSE sparse_checkformat(sdok[arg], sccs[arg], okb)
      conv == [sccs EXCEPT ![self] = ca, ![arg] = cb]
      out == Sparse_new(self)
      fits == IF op = "mul" THEN ca.ncols = cb.nrows
              ELSE ca.ncols = cb.ncols /\ ca.nrows = cb.nrows
      res == IF op = "add" THEN cs_add(CcsEntries(ca), CcsEntries(cb), 1, 1)
             ELSE IF op = "sub" THEN cs_add(CcsEntries(ca), CcsEntries(cb), 1, -1)
             ELSE cs_multiply(CcsEntries(ca), CcsEntries(cb))
  IN IF ca.cptr = <<>> \/ cb.cptr = <<>>
     THEN /\ sccs' = [conv EXCEPT !["new"] = sparseccs_init]
          /\ sdok' = [sdok EXCEPT !["new"] = sparsedok_init]
          /\ scall' = [op |-> op, self |-> self, arg |-> arg, col |-> 0,
                       ret |-> "error", result |-> <<>>]
     ELSE IF ~fits
     THEN /\ sccs' = [conv EXCEPT !["new"] = sparseccs_init]
          /\ sdok' = [sdok EXCEPT !["new"] = sparsedok_init]
          /\ scall' = [op |-> op, self |-> self, arg |-> arg, col |-> 0,
                       ret |-> "error", result |-> <<>>]
     ELSE /\ sdok' = [[sdok EXCEPT !["new"] = sparsedok_init]
                        EXCEPT ![out] = sparsedok_init]
          /\ sccs' = [[conv EXCEPT !["new"] = sparseccs_init]
                        EXCEPT ![out] = CcsFromEntries(res, ca.nrows, cb.ncols)]
          /\ scall' = [op |-> op, self |-> self, arg |-> arg, col |-> 0,
                       ret |-> "ok", result |-> <<>>]

\* Sparse_add
Sparse_add ==
  \E self \in {"a"}, arg \in {"a", "b"}, oka \in BOOLEAN, okb \in BOOLEAN :
    /\ oka \in ConversionOutcomes(sdok[self])
    /\ okb \in ConversionOutcomes(sdok[arg])
    /\ SparseArithmetic("add", self, arg, oka, okb)
    /\ UNCHANGED <<sedited, sstale, sinserted>>
    /\ UNCHANGED notSP

\* Sparse_sub
Sparse_sub ==
  \E self \in {"a"}, arg \in {"a", "b"}, oka \in BOOLEAN, okb \in BOOLEAN :
    /\ oka \in ConversionOutcomes(sdok[self])
    /\ okb \in ConversionOutcomes(sdok[arg])
    /\ SparseArithmetic("sub", self, arg, oka, okb)
    /\ UNCHANGED <<sedited, sstale, sinserted>>
    /\ UNCHANGED notSP

\* Sparse_mul
Sparse_mul ==
  \E self \in {"a"}, arg \in {"a", "b"}, oka \in BOOLEAN, okb \in BOOLEAN :
    /\ oka \in ConversionOutcomes(sdok[self])
    /\ okb \in ConversionOutcomes(sdok[arg])
    /\ SparseArithmetic("mul", self, arg, oka, okb)
    /\ UNCHANGED <<sedited, sstale, sinserted>>
    /\ UNCHANGED notSP

\* Sparse_setindex -> sparse_setelement on "a" or on the object the last
\* arithmetic operation has returned; the call record keeps the assignment
\* and the entries the object had before it
Sparse_setindex_any ==
  \E self \in {"a", "new"}, i \in SRows, j \in SCols, v \in SValues :
    /\ self = "new" => sccs["new"].cptr # <<>>
    /\ <<i, j>> \in DOMAIN sdok[self].val \/ Len(sdok[self].keys) < MaxEntries
    /\ sdok' = [o \in SparseIds |->
                  IF o = self THEN sparsedok_insert(sdok[o], i, j, v)
                  ELSE IF o = "new" THEN sparsedok_init ELSE sdok[o]]
    /\ sccs' = [o \in SparseIds |->
                  IF o = self THEN sparse_setelement_ccs(sccs[o])
                  ELSE IF o = "new" THEN sparseccs_init ELSE sccs[o]]
    /\ sstale' = IF sccs[self].cptr # <<>> THEN sstale \cup {self} ELSE sstale
    /\ sinserted' = IF self # "a" \/ <<i, j>> \in DOMAIN sdok["a"].val THEN sinserted
                    ELSE Append(sinserted, <<i, j>>)
    /\ sedited' = IF sparse_setelement_ccs(sccs[self]).cptr = <<>>
                  THEN sedited \ {self} ELSE sedited
    /\ scall' = [op |-> "setindex", self |-> self, arg |-> self, col |-> j,
                 ret |-> "ok",
                 result |-> << <<i, j, v>> >> \o
                            KeyList(SparseEntries(sdok[self], sccs[self]))]
    /\ UNCHANGED notSP

\* assignments to "a" and to results of arithmetic
SPAssignNext ==
  \/ Sparse_setindex_any
  \/ Sparse_add
  \/ Sparse_mul

SPNext ==
  \/ Sparse_setindex
  \/ Sparse_rowindices
  \/ Sparse_colindices
  \/ Sparse_setrowindices
  \/ Sparse_add
  \/ Sparse_sub
  \/ Sparse_mul

(***************************************************************************)
(* Refinement of triangle meshes (meshtools): the function refinemesh and  *)
(* MeshRefiner.refinemesh, with and without a selection.                   *)
(*                                                                         *)
(* Vertices sit at distinct points of a grid.  Positions are kept doubled, *)
(* so that the midpoint of two vertices is the sum of their grid points.   *)
(* The k-d tree is the set of (location, id) nodes inserted so far.        *)
(***************************************************************************)
TriVertexIds == 0..3
TriPoints == (0..1) \X (0..1)

\* The meshes: faces by ascending vertex ids; grade 1 holds every side
TriMeshes ==
  { [face |-> << <<0, 1, 2>> >>,
     edge |-> << <<0, 1>>, <<0, 2>>, <<1, 2>> >>],
    [face |-> << <<0, 1, 2>>, <<1, 2, 3>> >>,
     edge |-> << <<0, 1>>, <<0, 2>>, <<1, 2>>, <<1, 3>>, <<2, 3>> >>],
    [face |-> << <<0, 1, 2>>, <<0, 1, 3>> >>,
     edge |-> << <<0, 1>>, <<0, 2>>, <<1, 2>>, <<0, 3>>, <<1, 3>> >>],
    [face |-> << <<0, 1, 2>>, <<0, 1, 3>>, <<0, 2, 3>>, <<1, 2, 3>> >>,
     edge |-> << <<0, 1>>, <<0, 2>>, <<1, 2>>, <<0, 3>>, <<1, 3>>, <<2, 3>> >>] }

NoMesh == [vertices |-> <<>>, edges |-> <<>>, faces |-> <<>>]

MaxSelected == 2   \* elements in a selection passed to refinemesh

\* selection=nil, or a selection of edges <<1, id>> and faces <<2, id>>
NoSelection == [nil |-> TRUE, els |-> {}]
TriSelections(edges, faces) ==
  { [nil |-> FALSE, els |-> e] :
      e \in { x \in SUBSET (({1} \X (0..(Len(edges) - 1))) \cup
                             ({2} \X (0..(Len(faces) - 1)))) :
                 Cardinality(x) <= MaxSelected } }

TRIdle ==
  /\ tvert = <<>> /\ tface = <<>> /\ tedge = <<>> /\ tnew = NoMesh /\ tpc = "off"
  /\ tsel = NoSelection

TRInit ==
  /\ tvert \in { f \in [TriVertexIds -> TriPoints] :
                   \A u, v \in TriVertexIds : u # v => f[u] # f[v] }
  /\ \E m \in TriMeshes : tface = m.face /\ tedge = m.edge
  /\ tnew = NoMesh
  /\ tpc = "mesh"
  /\ tsel = NoSelection

\* vertices.column(i), doubled
Column(i) == <<2 * tvert[i][1], 2 * tvert[i][2]>>

\* (vert.column(a) + vert.column(b))/2, doubled
Midpoint(a, b) == <<tvert[a][1] + tvert[b][1], tvert[a][2] + tvert[b][2]>>

\* tree.ismember(x): the node at x
TreeHas(tree, x) == \E n \in tree : n.loc = x
TreeNode(tree, x) == CHOOSE n \in tree : n.loc = x

\* The vertex pairs (el[i], el[j]), i < j, of an element
ElementPairs(el) ==
  IF Len(el) = 2 THEN << <<el[1], el[2]>> >>
  ELSE << <<el[1], el[2]>>, <<el[1], el[3]>>, <<el[2], el[3]>> >>

\* MeshRefiner.split over a list of elements: st holds the builder's vertex
\* list, the tree and the dictionary of the vertices (a vertex that is
\* copied is entered as the list of its one old id)
RECURSIVE SplitPairs(_, _)
SplitPairs(pairs, st) ==
  IF pairs = <<>> THEN st
  ELSE LET x == Midpoint(Head(pairs)[1], Head(pairs)[2]) IN
       IF TreeHas(st.tree, x) THEN SplitPairs(Tail(pairs), st)
       ELSE SplitPairs(Tail(pairs),
              [vertices |-> Append(st.vertices, x),
               tree |-> st.tree \cup {[loc |-> x, id |-> Len(st.vertices)]},
               dict |-> Append(st.dict, Head(pairs))])

RECURSIVE split(_, _)
split(els, st) ==
  IF els = <<>> THEN st
  ELSE split(Tail(els), SplitPairs(ElementPairs(Head(els)), st))

\* MeshRefiner.refine1: the edges that replace edge el
refine1(el, tree) ==
  LET x == Midpoint(el[1], el[2]) IN
  IF TreeHas(tree, x)
  THEN << <<el[1], TreeNode(tree, x).id>>, <<TreeNode(tree, x).id, el[2]>> >>
  ELSE <<el>>

\* MeshRefiner.refine2: refedge, the sides whose midpoint is in the tree
refedge(el, tree) ==
  LET ps == SelectSeq(ElementPairs(el), LAMBDA p : TreeHas(tree, Midpoint(p[1], p[2])))
  IN [n \in DOMAIN ps |-> <<ps[n][1], ps[n][2], TreeNode(tree, Midpoint(ps[n][1], ps[n][2])).id>>]

\* MeshRefiner.refine2: the faces that replace face el, the edges added
\* with them (when the mesh has edges), and whether anything was refined
refine2(el, tree) ==
  LET r == refedge(el, tree)
      inner(es) == IF Len(tedge) > 0 THEN es ELSE <<>>
  IN  CASE Len(r) = 1 ->
             LET tid == CHOOSE id \in Range(el) : id \notin Range(r[1])
             IN  [faces |-> << <<r[1][1], r[1][3], tid>>, <<r[1][3], r[1][2], tid>> >>,
                  edges |-> inner(<< <<r[1][3], tid>> >>),
                  refined |-> TRUE]
        [] Len(r) = 2 ->
             LET shareid == CHOOSE id \in Range(el) :
                              id \in Range(r[1]) /\ id \in Range(r[2])
                 xid == CHOOSE id \in Range(el) :
                          id \in Range(r[1]) /\ id \notin Range(r[2])
                 yid == CHOOSE id \in Range(el) :
                          id \notin Range(r[1]) /\ id \in Range(r[2])
             IN  [faces |-> << <<shareid, r[1][3], r[2][3]>>, <<xid, r[1][3], r[2][3]>>,
                                <<xid, yid, r[2][3]>> >>,
                  edges |-> inner(<< <<r[2][3], xid>>, <<r[1][3], r[2][3]>> >>),
                  refined |-> TRUE]
        [] Len(r) = 3 ->
             [faces |-> << <<el[1], r[1][3], r[2][3]>>, <<el[2], r[1][3], r[3][3]>>,
                           <<el[3], r[2][3], r[3][3]>>, <<r[1][3], r[2][3], r[3][3]>> >>,
              edges |-> inner(<< <<r[1][3], r[2][3]>>, <<r[2][3], r[3][3]>>,
                                 <<r[3][3], r[1][3]>> >>),
              refined |-> TRUE]
        [] OTHER -> [faces |-> <<el>>, edges |-> <<>>, refined |-> FALSE]

\* the loop over the edges: the new edges, and dict as the list of the old
\* ids the new ids 0, 1, ... map to
RECURSIVE RefineEdges(_, _, _)
RefineEdges(els, tree, i) ==
  IF els = <<>> THEN [edges |-> <<>>, dict |-> <<>>]
  ELSE LET h == refine1(Head(els), tree)
           t == RefineEdges(Tail(els), tree, i + 1)
       IN [edges |-> h \o t.edges, dict |-> [n \in DOMAIN h |-> i] \o t.dict]

\* the loop over the faces: the new faces, the edges refine2 has added, and
\* dict; refine2 makes no entry in a dict for the edges it adds
RECURSIVE RefineFaces(_, _, _)
RefineFaces(els, tree, i) ==
  IF els = <<>> THEN [faces |-> <<>>, edges |-> <<>>, dict |-> <<>>]
  ELSE LET h == refine2(Head(els), tree)
           t == RefineFaces(Tail(els), tree, i + 1)
       IN [faces |-> h.faces \o t.faces, edges |-> h.edges \o t.edges,
           dict |-> [n \in DOMAIN h.faces |-> i] \o t.dict]

\* the elements split is called for: all, or those of the selection
Selected(els, g, sel) ==
  LET ids == SelectSeq([n \in DOMAIN els |-> n - 1],
                       LAMBDA i : sel.nil \/ <<g, i>> \in sel.els)
  IN  [n \in DOMAIN ids |-> els[ids[n] + 1]]

\* MeshRefiner.refinemesh(selection)
MeshRefiner_refinemesh ==
  \E sel \in {NoSelection} \cup TriSelections(tedge, tface) :
    /\ tpc = "mesh"
    /\ tsel' = sel
    /\ LET seed == [vertices |-> [i \in 1..Cardinality(TriVertexIds) |-> Column(i - 1)],
                    tree |-> { [loc |-> Column(i), id |-> i] : i \in TriVertexIds },
                    dict |-> [i \in 1..Cardinality(TriVertexIds) |-> <<i - 1>>]]
           st == split(Selected(tface, 2, sel), split(Selected(tedge, 1, sel), seed))
           e == RefineEdges(tedge, st.tree, 0)
           f == RefineFaces(tface, st.tree, 0)
       IN tnew' = [vertices |-> st.vertices,
                   edges |-> e.edges \o f.edges,
                   faces |-> f.faces,
                   refmap |-> <<st.dict, e.dict, f.dict>>]
    /\ tpc' = "MeshRefiner"
    /\ UNCHANGED <<tvert, tface, tedge>>
    /\ UNCHANGED notTR

\* faceedge.rowindices(i): the ids of the edges of a face, ascending
FaceEdges(face) ==
  SelectSeq([n \in DOMAIN tedge |-> n - 1],
            LAMBDA e : \A v \in Range(tedge[e + 1]) : v \in Range(face))

\* refinemesh(m): the four faces and three edges that replace face number i
refinemesh_face(face) ==
  LET nv == Cardinality(TriVertexIds)
      fe == FaceEdges(face)
      ev == [k \in 1..3 |-> tedge[fe[k] + 1]]
      va == ev[1][1]
      vb == ev[1][2]
      vc == IF ev[2][1] \in Range(ev[1]) THEN ev[2][2] ELSE ev[2][1]
      fs == IF va \notin Range(ev[2]) THEN <<fe[1], fe[3], fe[2]>> ELSE fe
      vx == nv + fs[1]
      vy == nv + fs[2]
      vz == nv + fs[3]
  IN [faces |-> << {va, vx, vy}, {vb, vx, vz}, {vc, vy, vz}, {vx, vy, vz} >>,
      edges |-> << {vx, vy}, {vx, vz}, {vy, vz} >>]

\* refinemesh(m): the columns newfaces and newedges get, by column number
refinemesh_columns ==
  LET nv == Cardinality(TriVertexIds)
      nl == Len(tedge)
      nf == Len(tface)
      r == [i \in 1..nf |-> refinemesh_face(tface[i])]
  IN [faces |-> [c \in 1..(4 * nf) |->
                   IF c <= nf THEN r[c].faces[1]
                   ELSE r[((c - nf - 1) \div 3) + 1].faces[((c - nf - 1) % 3) + 2]],
      edges |-> [c \in 1..(2 * nl + 3 * nf) |->
                   IF c <= nl THEN {tedge[c][1], nv + c - 1}
                   ELSE IF c <= 2 * nl THEN {nv + c - nl - 1, tedge[c - nl][2]}
                   ELSE r[((c - 2 * nl - 1) \div 3) + 1].edges[((c - 2 * nl - 1) % 3) + 1]]]

\* refinemesh(m)
refinemesh_fn ==
  /\ tpc = "mesh"
  /\ tnew' = [vertices |-> [i \in 1..(Cardinality(TriVertexIds) + Len(tedge)) |->
                              IF i <= Cardinality(TriVertexIds) THEN Column(i - 1)
                              ELSE Midpoint(tedge[i - Cardinality(TriVertexIds)][1],
                                            tedge[i - Cardinality(TriVertexIds)][2])],
              edges |-> refinemesh_columns.edges,
              faces |-> refinemesh_columns.faces]
  /\ tpc' = "refinemesh"
  /\ UNCHANGED <<tvert, tface, tedge, tsel>>
  /\ UNCHANGED notTR

TRNext ==
  \/ MeshRefiner_refinemesh
  \/ refinemesh_fn

(***************************************************************************)
(* Fixing (optimize.morpho): ShapeOptimizer.fix / unfix keep a list of      *)
(* vertex ids, FieldOptimizer.fix / unfix keep a Selection.                 *)
(*                                                                         *)
(* A list argument may be any list of ids, repeats included, or the        *)
(* optimizer's own fixed list (sopt.unfix(sopt.fixed)).  for (i in lst)    *)
(* walks lst with a hidden integer counter; List.remove takes out every    *)
(* occurrence of a value, in place.                                        *)
(***************************************************************************)
MaxListLen == 2   \* length of a list passed to fix or unfix

FixIds == 0..2
FixElements == (0..1) \X (0..1)   \* <<grade, id>>

NilList == [nil |-> TRUE, ids |-> <<>>]
NilSelection == [nil |-> TRUE, els |-> {}]

\* the arguments fix and unfix are called with
ListArgs ==
  UNION { { [kind |-> "list", ids |-> l, els |-> {}] : l \in [1..n -> FixIds] } :
          n \in 0..MaxListLen }
SelectionArgs == { [kind |-> "selection", ids |-> <<>>, els |-> e] : e \in SUBSET FixElements }
OwnArg == [kind |-> "own", ids |-> <<>>, els |-> {}]
OtherArg == [kind |-> "other", ids |-> <<>>, els |-> {}]

\* Selection.idlistforgrade(g)
idlistforgrade(els, g) == Ascending({ e[2] : e \in { x \in els : x[1] = g } })

\* List.ismember(x)
ismember(l, x) == x \in Range(l)

\* List.remove(x)
remove(l, x) == SelectSeq(l, LAMBDA y : y # x)

\* var lst = s; if (isselection(s)) lst = s.idlistforgrade(0)
\* (the ids of lst when the call starts; an own list is self.fixed itself)
lstOf(s, fx) ==
  CASE s.kind = "list" -> s.ids
    [] s.kind = "selection" -> idlistforgrade(s.els, 0)
    [] s.kind = "own" -> fx
    [] OTHER -> <<>>

\* for (i in lst) if (!(self.fixed.ismember(i))) self.fixed.append(i)
\* from counter k on; own: lst is the list self.fixed
RECURSIVE fix_loop(_, _, _, _)
fix_loop(fx, lst, k, own) ==
  LET cur == IF own THEN fx ELSE lst
  IN  IF k >= Len(cur) THEN fx
      ELSE fix_loop(IF ~ismember(fx, cur[k + 1]) THEN Append(fx, cur[k + 1]) ELSE fx,
                    lst, k + 1, own)

\* for (i in lst) if (self.fixed.ismember(i)) self.fixed.remove(i)
\* from counter k on: the list left, and the counter the loop stopped at
RECURSIVE unfix_loop(_, _, _, _)
unfix_loop(fx, lst, k, own) ==
  LET cur == IF own THEN fx ELSE lst
  IN  IF k >= Len(cur) THEN [ids |-> fx, k |-> k]
      ELSE unfix_loop(IF ismember(fx, cur[k + 1]) THEN remove(fx, cur[k + 1]) ELSE fx,
                      lst, k + 1, own)

FXIdle ==
  /\ fixed = NilList /\ ffixed = NilSelection
  /\ everfixed = {} /\ feverfixed = {} /\ fxerror = FALSE

FXInit == FXIdle

\* ShapeOptimizer.fix(s)
ShapeOptimizer_fix ==
  \E s \in ListArgs \cup SelectionArgs \cup {OwnArg, OtherArg} :
    /\ s.kind = "own" => ~fixed.nil
    /\ LET lst == lstOf(s, fixed.ids)
       IN  /\ fixed' = [nil |-> FALSE,
                        ids |-> IF s.kind = "other" THEN fixed.ids
                                ELSE fix_loop(fixed.ids, lst, 0, s.kind = "own")]
           /\ everfixed' = everfixed \cup Range(lst)
    /\ fxerror' = FALSE
    /\ UNCHANGED <<ffixed, feverfixed>>
    /\ UNCHANGED notFX

\* ShapeOptimizer.unfix(s)
ShapeOptimizer_unfix ==
  \E s \in ListArgs \cup SelectionArgs \cup {OwnArg, OtherArg} :
    /\ s.kind = "own" => ~fixed.nil
    /\ IF fixed.nil \/ s.kind = "other"
       THEN /\ fxerror' = FALSE
            /\ UNCHANGED <<fixed, everfixed>>
       ELSE LET lst == lstOf(s, fixed.ids)
                r == unfix_loop(fixed.ids, lst, 0, s.kind = "own")
            IN  /\ fixed' = [nil |-> FALSE, ids |-> r.ids]
                /\ everfixed' = everfixed \ Range(lst)
                \* the counter ran past the end of a list that shrank
                /\ fxerror' \in IF r.k < Len(lst) THEN BOOLEAN ELSE {FALSE}
    /\ UNCHANGED <<ffixed, feverfixed>>
    /\ UNCHANGED notFX

\* FieldOptimizer.fix(s)
FieldOptimizer_fix ==
  \E s \in SelectionArgs \cup {OtherArg} :
    /\ ffixed' = [nil |-> FALSE,
                  els |-> IF s.kind = "selection" THEN ffixed.els \cup s.els
                          ELSE ffixed.els]
    /\ feverfixed' = feverfixed \cup s.els
    /\ fxerror' = FALSE
    /\ UNCHANGED <<fixed, everfixed>>
    /\ UNCHANGED notFX

\* FieldOptimizer.unfix(s)
FieldOptimizer_unfix ==
  \E s \in SelectionArgs \cup {OtherArg} :
    /\ IF ffixed.nil \/ s.kind # "selection"
       THEN UNCHANGED <<ffixed, feverfixed>>
       ELSE /\ ffixed' = [nil |-> FALSE, els |-> ffixed.els \ s.els]
            /\ feverfixed' = feverfixed \ s.els
    /\ fxerror' = FALSE
    /\ UNCHANGED <<fixed, everfixed>>
    /\ UNCHANGED notFX

FXNext ==
  \/ ShapeOptimizer_fix
  \/ ShapeOptimizer_unfix
  \/ FieldOptimizer_fix
  \/ FieldOptimizer_unfix

(***************************************************************************)
(* Fixed vertices under descent (optimize.morpho, functional.c)             *)
(*                                                                         *)
(* A ShapeOptimizer on a mesh in one dimension with one energy, one local   *)
(* and one global constraint.  Every gradient the optimizer uses comes     *)
(* from Optimizer.gradient, which zeroes the columns of the fixed ids.      *)
(* The energy is differentiated numerically: functional_numericalgradient   *)
(* moves a coordinate by eps either way and writes it back afterwards.      *)
(***************************************************************************)
FVIds == 0..1
FVGrads == [FVIds -> {0, 1}]   \* what functional.gradient returns
FVSizes == {1, 2}               \* step sizes
FVSol == 1                      \* dv/m, Matrix(va)/m: one grid unit
FVNoForce == [k \in FVIds |-> 0]

\* ShapeOptimizer.fixgrad without the loop over self.fixed
fixgrad_none(grad, fx) == grad

\* ShapeOptimizer.fixgrad: grad.setcolumn(i, zero) for i in self.fixed
fixgrad(grad, fx) == [k \in FVIds |-> IF k \in fx THEN 0 ELSE grad[k]]

\* Matrix.acc: a + lambda*b
acc(a, lambda, b) == [k \in FVIds |-> a[k] + lambda * b[k]]

\* reprojectlocalconstraints: the vertices of `at` are off the constraint;
\* each is moved along its column of the constraint gradient g
reprojectlocal(x, at, g, sol) ==
  [k \in FVIds |-> IF k \in at THEN x[k] + sol * g[k] ELSE x[k]]

\* reprojectlocalconstraints: forceinnerproducts(fa) is zero for one of the
\* vertices to move, so Matrix(va)/m raises MATRIX_SINGULAR
LocalSingular(at, g) == \E k \in at : g[k] = 0

\* reprojectconstraints: forceinnerproducts(fv) is zero
GlobalSingular(g) == \A k \in FVIds : g[k] = 0

FVIdle ==
  /\ vcoord = <<>> /\ vfixed = {} /\ vhome = <<>> /\ vforce = <<>> /\ vpc = "off"
  /\ vi = 0 /\ verror = "none"

FVInit ==
  /\ vcoord = [k \in FVIds |-> 0] /\ vfixed \in SUBSET FVIds /\ vhome = [k \in FVIds |-> 0]
  /\ vforce = FVNoForce /\ vpc = "loop" /\ vi = 0 /\ verror = "none"

\* self.force = self.totalforcewithconstraints(): the gradients of the energy
\* and of the constraints, each through Optimizer.gradient
totalforcewithconstraints ==
  \E ge \in FVGrads, gl \in FVGrads, gc \in FVGrads, lambda \in {0, 1} :
    /\ vpc = "loop"
    /\ vi < MaxIter
    /\ LET f == fixgrad(ge, vfixed)
           \* sublocal: a column is projected where the constraint gradient
           \* is not zero
           fl == [k \in FVIds |-> IF fixgrad(gl, vfixed)[k] # 0 THEN 0 ELSE f[k]]
       IN  vforce' = acc(fl, 0 - lambda, fixgrad(gc, vfixed))
    /\ vpc' = "forced"
    /\ UNCHANGED <<vcoord, vfixed, vhome, vi, verror>>
    /\ UNCHANGED notFV

\* functional_numericalgradient: the integrand fails at x0+eps or at x0-eps
\* and the function returns false
functional_numericalgradient_fail ==
  \E k \in FVIds, d \in {Eps, 0 - Eps} :
    /\ vpc = "loop"
    /\ vi < MaxIter
    /\ vcoord' = [vcoord EXCEPT ![k] = @ + d]
    /\ verror' = "integrand"
    /\ vpc' = "halted"
    /\ UNCHANGED <<vfixed, vhome, vforce, vi>>
    /\ UNCHANGED notFV

\* step(h): target.acc(-h, frc), reprojectlocalconstraints,
\* reprojectconstraints; the vertex matrix afterwards
stepped(x, h, at, gl, gc) ==
  acc(reprojectlocal(acc(x, 0 - h, vforce), at, fixgrad(gl, vfixed), FVSol),
      FVSol, fixgrad(gc, vfixed))

\* energywithstepsize(h) of the line search: the step, totalenergy(),
\* settarget(vsave)
energywithstepsize ==
  \E h \in FVSizes, at \in SUBSET FVIds, gl \in FVGrads, gc \in FVGrads :
    /\ vpc = "forced"
    /\ ~LocalSingular(at, fixgrad(gl, vfixed))
    /\ ~GlobalSingular(fixgrad(gc, vfixed))
    \* var vsave = target.clone() ... self.settarget(vsave)
    /\ vcoord' = settarget(vcoord, stepped(vcoord, h, at, gl, gc))
    /\ UNCHANGED <<vfixed, vhome, vforce, vpc, vi, verror>>
    /\ UNCHANGED notFV

\* self.step(self.stepsize) of relax, linesearch and conjugategradient
ShapeOptimizer_step ==
  \E h \in FVSizes, at \in SUBSET FVIds, gl \in FVGrads, gc \in FVGrads :
    /\ vpc = "forced"
    /\ ~LocalSingular(at, fixgrad(gl, vfixed))
    /\ ~GlobalSingular(fixgrad(gc, vfixed))
    /\ vcoord' = stepped(vcoord, h, at, gl, gc)
    /\ vi' = vi + 1
    /\ vpc' = "loop"
    /\ UNCHANGED <<vfixed, vhome, vforce, verror>>
    /\ UNCHANGED notFV

\* a step, trial or not, in which Matrix(va)/m or dv/m raises MATRIX_SINGULAR:
\* the target stays where the step has taken it so far
step_singular ==
  \E h \in FVSizes, at \in SUBSET FVIds, gl \in FVGrads, gc \in FVGrads :
    /\ vpc = "forced"
    /\ \/ /\ LocalSingular(at, fixgrad(gl, vfixed))
          /\ vcoord' = reprojectlocal(acc(vcoord, 0 - h, vforce),
                                  { k \in at : fixgrad(gl, vfixed)[k] # 0 },
                                  fixgrad(gl, vfixed), FVSol)
       \/ /\ ~LocalSingular(at, fixgrad(gl, vfixed))
          /\ GlobalSingular(fixgrad(gc, vfixed))
          /\ vcoord' = reprojectlocal(acc(vcoord, 0 - h, vforce), at,
                                  fixgrad(gl, vfixed), FVSol)
    /\ verror' = "MatrixSingular"
    /\ vpc' = "halted"
    /\ UNCHANGED <<vfixed, vhome, vforce, vi>>
    /\ UNCHANGED notFV

FVNext ==
  \/ totalforcewithconstraints
  \/ functional_numericalgradient_fail
  \/ energywithstepsize
  \/ ShapeOptimizer_step
  \/ step_singular

(***************************************************************************)
(* Rebinding after refinement (meshtools MeshRefiner.refine, optimize      *)
(* update methods, the refinement loop of the example script)              *)
(***************************************************************************)

MaxRefine == 2   \* refinements the script makes

\* an object is known by its kind, the mesh it belongs to (the mesh after
\* gen refinements) and the one who made it
Obj(kind, gen, tag) == [kind |-> kind, gen |-> gen, tag |-> tag]
NilObj == Obj("nil", 0, "nil")

RBIdle ==
  /\ rbm = NilObj /\ rbnn = NilObj /\ rbbnd = NilObj
  /\ rbpmesh = NilObj /\ rbpfield = NilObj /\ rbesel = NilObj
  /\ rbstarget = NilObj /\ rbftarget = NilObj /\ rbffixed = NilObj
  /\ rblist = {} /\ rbmap = {} /\ rbupd = {} /\ rbgen = 0 /\ rbpc = "off"

\* the script up to its optimization loop: problem.addenergy(la,
\* selection=bnd), problem.addlocalconstraint(ln, field=nn),
\* ShapeOptimizer(problem, m), FieldOptimizer(problem, nn)
RBInit ==
  /\ rbm = Obj("mesh", 0, "m")
  /\ rbnn = Obj("field", 0, "nn")
  /\ rbbnd = Obj("selection", 0, "bnd")
  /\ rbpmesh = rbm /\ rbpfield = rbnn /\ rbesel = rbbnd
  /\ rbstarget = rbm /\ rbftarget = rbnn /\ rbffixed = NilObj
  /\ rblist = {} /\ rbmap = {} /\ rbupd = {} /\ rbgen = 0 /\ rbpc = "loop"

contains(dict, x) == \E p \in dict : p[1] = x
lookup(dict, x) == (CHOOSE p \in dict : p[1] = x)[2]

\* if (dict.contains(x)) x = dict[x]
rebound(dict, x) == IF contains(dict, x) THEN lookup(dict, x) ELSE x

\* FieldOptimizer.fix(s) with a selection: fixed becomes a selection made
\* here, Selection(self.target.mesh()) joined with s; what mesh the union
\* of selections of two meshes belongs to is open, so it is either's
fopt_fix ==
  /\ rbpc = "loop"
  /\ \E g \in (IF rbffixed = NilObj THEN {rbftarget.gen} ELSE {rbffixed.gen})
                \cup {rbbnd.gen} :
       rbffixed' = Obj("selection", g, "fixed")
  /\ UNCHANGED <<rbm, rbnn, rbbnd, rbpmesh, rbpfield, rbesel, rbstarget,
                 rbftarget, rblist, rbmap, rbupd, rbgen, rbpc>>
  /\ UNCHANGED notRB

\* FieldOptimizer.unfix(s) with a selection
fopt_unfix ==
  /\ rbpc = "loop"
  /\ rbffixed' = NilObj
  /\ UNCHANGED <<rbm, rbnn, rbbnd, rbpmesh, rbpfield, rbesel, rbstarget,
                 rbftarget, rblist, rbmap, rbupd, rbgen, rbpc>>
  /\ UNCHANGED notRB

\* var mr = MeshRefiner([m, ...]); var refmap = mr.refine(): the new mesh
\* for the mesh, refinefield or refineselection for the others of the list
MeshRefiner_refine ==
  /\ rbpc = "loop"
  /\ rbgen < MaxRefine
  /\ \E others \in SUBSET ({rbnn, rbbnd, rbffixed} \ {NilObj}) :
       /\ rblist' = {rbm} \cup others
       /\ rbmap' = { <<el, [el EXCEPT !.gen = rbm.gen + 1]>> : el \in {rbm} \cup others }
  /\ rbgen' = rbgen + 1
  /\ rbupd' = {"problem", "sopt", "fopt"}
  /\ rbpc' = "update"
  /\ UNCHANGED <<rbm, rbnn, rbbnd, rbpmesh, rbpfield, rbesel, rbstarget,
                 rbftarget, rbffixed>>
  /\ UNCHANGED notRB

\* OptimizationProblem.update(dict)
OptimizationProblem_update ==
  /\ rbpc = "update"
  /\ "problem" \in rbupd
  /\ rbpmesh' = rebound(rbmap, rbpmesh)
  /\ rbpfield' = rebound(rbmap, rbpfield)
  /\ rbesel' = rebound(rbmap, rbesel)
  /\ rbupd' = rbupd \ {"problem"}
  /\ UNCHANGED <<rbm, rbnn, rbbnd, rbstarget, rbftarget, rbffixed, rblist,
                 rbmap, rbgen, rbpc>>
  /\ UNCHANGED notRB

\* Optimizer.update(dict), of the ShapeOptimizer and of the FieldOptimizer
Optimizer_update ==
  /\ rbpc = "update"
  /\ \E o \in rbupd \ {"problem"} :
       /\ rbupd' = rbupd \ {o}
       /\ IF o = "sopt"
          THEN rbstarget' = rebound(rbmap, rbstarget) /\ UNCHANGED rbftarget
          ELSE rbftarget' = rebound(rbmap, rbftarget) /\ UNCHANGED rbstarget
  /\ UNCHANGED <<rbm, rbnn, rbbnd, rbpmesh, rbpfield, rbesel, rbffixed, rblist,
                 rbmap, rbgen, rbpc>>
  /\ UNCHANGED notRB

\* m=refmap[m]; nn=refmap[nn]; bnd=refmap[bnd]: a key that is not in the
\* dictionary ends the script
script_rebind ==
  /\ rbpc = "update"
  /\ rbupd = {}
  /\ IF \A x \in {rbm, rbnn, rbbnd} : contains(rbmap, x)
     THEN /\ rbm' = lookup(rbmap, rbm)
          /\ rbnn' = lookup(rbmap, rbnn)
          /\ rbbnd' = lookup(rbmap, rbbnd)
          /\ rbpc' = "loop"
     ELSE /\ rbpc' = "error"
          /\ UNCHANGED <<rbm, rbnn, rbbnd>>
  /\ UNCHANGED <<rbpmesh, rbpfield, rbesel, rbstarget, rbftarget, rbffixed,
                 rblist, rbmap, rbupd, rbgen>>
  /\ UNCHANGED notRB

RBNext ==
  \/ fopt_fix
  \/ fopt_unfix
  \/ MeshRefiner_refine
  \/ OptimizationProblem_update
  \/ Optimizer_update
  \/ script_rebind

(***************************************************************************)
(* Line search and brent (optimize.morpho)                                 *)
(*                                                                         *)
(* One iteration of linesearch on an energy that is a function of the step *)
(* size along the line of descent.  Step sizes are whole numbers of a grid *)
(* unit; the energy is constant on stretches of StepSize0 / 2 units.       *)
(* brent works on the grid: zeps is one unit, tol is below the grid, and   *)
(* cgold is CGoldNum / CGoldDen.                                           *)
(***************************************************************************)
itermax == 3        \* self.linminmax, the iterations of brent (10)
CGoldNum == 382     \* cgold = 0.3819660
CGoldDen == 1000
Stretches == 5      \* stretches the energy takes values on
LSEnergies == 0..2

Stretch == StepSize0 \div 2

\* brent_func(u) = self.energywithstepsize(u) for the energy table E
brent_func(E, u) ==
  LET n == IF u < 0 THEN 0 ELSE u \div Stretch
  IN  E[IF n >= Stretches THEN Stretches - 1 ELSE n]

NoBrent == [a |-> 0, b |-> 0, d |-> 0, e |-> 0, v |-> 0, w |-> 0, x |-> 0,
            fv |-> 0, fw |-> 0, fx |-> 0, iter |-> 0]

LSIdle ==
  /\ lsE = <<>> /\ lsstepsize = 0 /\ lssteplimit = 0 /\ lsenergy = <<>>
  /\ lsbrack = <<>> /\ br = NoBrent /\ brevals = {} /\ brret = <<>> /\ lspc = "off"

\* the optimizer before linesearch(1) or a call of brent
LSInit ==
  /\ lsE \in [0..(Stretches - 1) -> LSEnergies]
  /\ lsstepsize = StepSize0
  /\ lssteplimit \in StepLimits
  /\ lsenergy = <<>>
  /\ lsbrack = <<>> /\ br = NoBrent /\ brevals = {} /\ brret = <<>>
  /\ lspc = "idle"

\* bracketstepsize: the while loop; <<>> stands for nil
RECURSIVE bracketloop(_, _, _, _)
bracketloop(E, st, bkt, iter) ==
  IF bkt[2] < bkt[1] /\ bkt[2] < bkt[3] THEN st
  ELSE IF bkt[3] < bkt[2]
       THEN IF iter > MaxBracketIter THEN <<>>
            ELSE bracketloop(E, <<st[1], st[3], 2 * st[3]>>,
                             <<bkt[1], bkt[3], brent_func(E, 2 * st[3])>>, iter + 1)
  ELSE IF bkt[2] > bkt[1]
       THEN IF iter > MaxBracketIter THEN <<>>
            ELSE bracketloop(E, <<st[1], st[2] \div 2, st[3]>>,
                             <<bkt[1], brent_func(E, st[2] \div 2), bkt[3]>>, iter + 1)
  ELSE <<>>

bracketstepsize(E, h0) ==
  bracketloop(E, <<0, h0, 2 * h0>>,
              <<brent_func(E, 0), brent_func(E, h0), brent_func(E, 2 * h0)>>, 0)

\* linesearch: the first entry of the history, then dolinesearch up to the
\* call of brent
dolinesearch ==
  /\ lspc = "idle"
  /\ lsenergy' = <<brent_func(lsE, 0)>>
  /\ lsbrack' = bracketstepsize(lsE, lsstepsize)
  /\ lspc' = IF bracketstepsize(lsE, lsstepsize) = <<>> THEN "break" ELSE "brent"
  /\ UNCHANGED <<lsE, lsstepsize, lssteplimit, br, brevals, brret>>
  /\ UNCHANGED notLS

\* brent called on a bkt of any three points
BrentPoints == {0, Stretch, 2 * Stretch, 4 * Stretch}
brent_call ==
  /\ lspc = "idle"
  /\ lsbrack' \in { t \in BrentPoints \X BrentPoints \X BrentPoints :
                      (t[1] < t[2] /\ t[2] < t[3]) \/ (t[3] < t[2] /\ t[2] < t[1]) }
  /\ lspc' = "brent"
  /\ UNCHANGED <<lsE, lsstepsize, lssteplimit, lsenergy, br, brevals, brret>>
  /\ UNCHANGED notLS

\* brent: up to the loop
brent_start ==
  /\ lspc = "brent"
  /\ LET bv == lsbrack[2] IN
     /\ br' = [a |-> IF lsbrack[1] < lsbrack[3] THEN lsbrack[1] ELSE lsbrack[3],
               b |-> IF lsbrack[1] > lsbrack[3] THEN lsbrack[1] ELSE lsbrack[3],
               d |-> 0, e |-> 0, v |-> bv, w |-> bv, x |-> bv,
               fv |-> brent_func(lsE, bv), fw |-> brent_func(lsE, bv), fx |-> brent_func(lsE, bv),
               iter |-> 0]
     /\ brevals' = {<<bv, brent_func(lsE, bv)>>}
  /\ lspc' = "loop"
  /\ UNCHANGED <<lsE, lsstepsize, lssteplimit, lsenergy, lsbrack, brret>>
  /\ UNCHANGED notLS

sign(x, y) == IF y < 0 THEN 0 - Abs(x) ELSE IF y > 0 THEN Abs(x) ELSE 0

zeps == 1
tol1 == zeps
tol2 == 2 * tol1

\* if (abs(x-xm) <= (tol2-0.5*(b-a))), with both sides doubled
converged(s) == Abs(2 * s.x - (s.a + s.b)) <= 2 * tol2 - (s.b - s.a)

\* if (x>=xm) e=a-x else e=b-x; d = cgold*e
golden(s) ==
  LET e == IF 2 * s.x >= s.a + s.b THEN s.a - s.x ELSE s.b - s.x
  IN  [s EXCEPT !.e = e, !.d = (CGoldNum * e) \div CGoldDen]

\* the step d and the length e one iteration settles on
trial(s) ==
  IF Abs(s.e) > tol1
  THEN LET r == (s.x - s.w) * (s.fx - s.fv)
           q0 == (s.x - s.v) * (s.fx - s.fw)
           p0 == (s.x - s.v) * q0 - (s.x - s.w) * r
           q1 == 2 * (q0 - r)
           p == IF q1 > 0 THEN 0 - p0 ELSE p0
           q == Abs(q1)
           etemp == s.e
           t == [s EXCEPT !.e = s.d]
       IN  IF 2 * Abs(p) >= Abs(q * etemp) \/ p <= q * (s.a - s.x) \/ p >= q * (s.b - s.x)
           THEN golden(t)
           ELSE LET d == p \div q
                    u == s.x + d
                IN  IF u - s.a < tol2 \/ s.b - u < tol2
                    THEN [t EXCEPT !.d = sign(tol1, (s.a + s.b) - 2 * s.x)]
                    ELSE [t EXCEPT !.d = d]
  ELSE golden(s)

\* the bookkeeping that always takes the new point
brent_update_always(t, u, fu) ==
  [t EXCEPT !.a = IF u >= t.x THEN t.x ELSE t.a,
            !.b = IF u >= t.x THEN t.b ELSE t.x,
            !.v = t.w, !.w = t.x, !.x = u,
            !.fv = t.fw, !.fw = t.fx, !.fx = fu]

\* brent: "Update bkt"
brent_update(t, u, fu) ==
  IF fu <= t.fx
  THEN [t EXCEPT !.a = IF u >= t.x THEN t.x ELSE t.a,
                 !.b = IF u >= t.x THEN t.b ELSE t.x,
                 !.v = t.w, !.w = t.x, !.x = u,
                 !.fv = t.fw, !.fw = t.fx, !.fx = fu]
  ELSE LET t1 == [t EXCEPT !.a = IF u < t.x THEN u ELSE t.a,
                           !.b = IF u < t.x THEN t.b ELSE u]
       IN  IF fu <= t.fw \/ t.w = t.x
           THEN [t1 EXCEPT !.v = t.w, !.w = u, !.fv = t.fw, !.fw = fu]
           ELSE IF fu <= t.fv \/ t.v = t.x \/ t.v = t.w
           THEN [t1 EXCEPT !.v = u, !.fv = fu]
           ELSE t1

\* brent: one pass of the loop that does not return
brent_iterate ==
  /\ lspc = "loop"
  /\ br.iter < itermax
  /\ ~converged(br)
  /\ LET t == trial(br)
         u == IF Abs(t.d) >= tol1 THEN br.x + t.d ELSE br.x + sign(tol1, t.d)
         fu == brent_func(lsE, u)
     IN  /\ br' = [brent_update(t, u, fu) EXCEPT !.iter = br.iter + 1]
         /\ brevals' = brevals \cup {<<u, fu>>}
  /\ UNCHANGED <<lsE, lsstepsize, lssteplimit, lsenergy, lsbrack, brret, lspc>>
  /\ UNCHANGED notLS

\* brent: return [x, fx], from the loop or after it; in dolinesearch
\* self.stepsize = step[0]
brent_return ==
  /\ lspc = "loop"
  /\ br.iter >= itermax \/ converged(br)
  /\ brret' = <<br.x, br.fx>>
  /\ lsstepsize' = IF lsenergy = <<>> THEN lsstepsize ELSE br.x
  /\ lspc' = IF lsenergy = <<>> THEN "returned" ELSE "step"
  /\ UNCHANGED <<lsE, lssteplimit, lsenergy, lsbrack, br, brevals>>
  /\ UNCHANGED notLS

\* linesearch: the test against steplimit, self.step(self.stepsize),
\* self.energy.append(self.totalenergy())
linesearch_step ==
  /\ lspc = "step"
  /\ lsstepsize' = clamp(lsstepsize, lssteplimit)
  /\ lsenergy' = Append(lsenergy, brent_func(lsE, clamp(lsstepsize, lssteplimit)))
  /\ lspc' = "appended"
  /\ UNCHANGED <<lsE, lssteplimit, lsbrack, br, brevals, brret>>
  /\ UNCHANGED notLS

LSNext ==
  \/ dolinesearch
  \/ brent_call
  \/ brent_start
  \/ brent_iterate
  \/ brent_return
  \/ linesearch_step

(***************************************************************************)
(* Specifications                                                          *)
(***************************************************************************)
InitNumGrad == NGInit /\ SMIdle /\ GRIdle /\ OPIdle /\ MRIdle /\ OIdle /\ SPIdle /\ TRIdle /\ FXIdle /\ FVIdle /\ RBIdle /\ LSIdle
SpecNumGrad == InitNumGrad /\ [][NGNext]_vars

InitSum == SMInit /\ NGIdle /\ GRIdle /\ OPIdle /\ MRIdle /\ OIdle /\ SPIdle /\ TRIdle /\ FXIdle /\ FVIdle /\ RBIdle /\ LSIdle
SpecSum == InitSum /\ [][SMNext]_vars

InitTwice == SMTwiceInit /\ NGIdle /\ GRIdle /\ OPIdle /\ MRIdle /\ OIdle /\ SPIdle /\ TRIdle /\ FXIdle /\ FVIdle /\ RBIdle /\ LSIdle
SpecTwice == InitTwice /\ [][SMNext]_vars

InitGrad == GRInit /\ NGIdle /\ SMIdle /\ OPIdle /\ MRIdle /\ OIdle /\ SPIdle /\ TRIdle /\ FXIdle /\ FVIdle /\ RBIdle /\ LSIdle
SpecGrad == InitGrad /\ [][GRNext]_vars

InitProblem == OPInit /\ NGIdle /\ SMIdle /\ GRIdle /\ MRIdle /\ OIdle /\ SPIdle /\ TRIdle /\ FXIdle /\ FVIdle /\ RBIdle /\ LSIdle
SpecProblem == InitProblem /\ [][OPNext]_vars

InitRefine == MRInit /\ NGIdle /\ SMIdle /\ GRIdle /\ OPIdle /\ OIdle /\ SPIdle /\ TRIdle /\ FXIdle /\ FVIdle /\ RBIdle /\ LSIdle
SpecRefine == InitRefine /\ [][MRNext]_vars

InitOpt == OInit /\ NGIdle /\ SMIdle /\ GRIdle /\ OPIdle /\ MRIdle /\ SPIdle /\ TRIdle /\ FXIdle /\ FVIdle /\ RBIdle /\ LSIdle
SpecOpt == InitOpt /\ [][ONext]_vars

\* relax alone; once called it runs on, nothing else being scheduled
SpecRelax == InitOpt /\ [][RelaxNext]_vars /\ WF_vars(RelaxNext)

InitSparse == SPInit /\ NGIdle /\ SMIdle /\ GRIdle /\ OPIdle /\ MRIdle /\ OIdle /\ TRIdle /\ FXIdle /\ FVIdle /\ RBIdle /\ LSIdle
SpecSparse == InitSparse /\ [][SPNext]_vars

InitTriangles == TRInit /\ NGIdle /\ SMIdle /\ GRIdle /\ OPIdle /\ MRIdle /\ OIdle /\ SPIdle /\ FXIdle /\ FVIdle /\ RBIdle /\ LSIdle
SpecTriangles == InitTriangles /\ [][TRNext]_vars

InitFix == FXInit /\ NGIdle /\ SMIdle /\ GRIdle /\ OPIdle /\ MRIdle /\ OIdle /\ SPIdle /\ TRIdle /\ FVIdle /\ RBIdle /\ LSIdle
SpecFix == InitFix /\ [][FXNext]_vars

InitFixedDescent == FVInit /\ NGIdle /\ SMIdle /\ GRIdle /\ OPIdle /\ MRIdle /\ OIdle /\ SPIdle /\ TRIdle /\ FXIdle /\ RBIdle /\ LSIdle
SpecFixedDescent == InitFixedDescent /\ [][FVNext]_vars

SpecAssign == InitSparse /\ [][SPAssignNext]_vars

InitLineSearch == LSInit /\ NGIdle /\ SMIdle /\ GRIdle /\ OPIdle /\ MRIdle /\ OIdle /\ SPIdle /\ TRIdle /\ FXIdle /\ FVIdle /\ RBIdle
SpecLineSearch == InitLineSearch /\ [][LSNext]_vars

InitRebind == RBInit /\ NGIdle /\ SMIdle /\ GRIdle /\ OPIdle /\ MRIdle /\ OIdle /\ SPIdle /\ TRIdle /\ FXIdle /\ FVIdle /\ LSIdle
SpecRebind == InitRebind /\ [][RBNext]_vars

(***************************************************************************)
(* Claims                                                                  *)
(***************************************************************************)

\* C1: when a numerical gradient evaluation has returned, with success or
\* with failure, every vertex coordinate and every field entry has the value
\* it had before the call.
C1_RestoredOnReturn ==
  ngpc \in {"done", "failed"} => (vert = vertAtCall /\ fdata = fdataAtCall)

\* The part of C1 the code keeps: a successful evaluation restores everything.
C1_RestoredOnSuccess ==
  ngpc = "done" => (vert = vertAtCall /\ fdata = fdataAtCall)

SymmetryImages == { smconn[n][2] : n \in DOMAIN smconn }

\* C2: when reprojectconstraints returns, every active global constraint has
\* a residual of absolute value at most ctol, or the warning was printed
\* during the call.
C2_ResidualsWithinCtolOrWarned ==
  opc = "reprojected" =>
    (warned \/ \A n \in DOMAIN rdv : Abs(rdv[n]) <= ctol)

\* reprojectconstraints returns without a warning after two passes, with
\* two constraints, one of them off its target by ctol.
C2_Witness ==
  /\ opc = "reprojected" /\ ~warned /\ nc = 2 /\ rci = 2
  /\ rdv = <<0 - ctol, 0>>

\* C3: an element that is a symmetry image (the column index of an entry of
\* C(g,g)) is never passed to the integrand, and adds nothing to total() or
\* integrand(), whether all elements or a selection are iterated.
C3_ImagesNeverEvaluated ==
  /\ Range(smpassed) \cap SymmetryImages = {}
  /\ smpc = "done" =>
       /\ \A j \in SymmetryImages : smout[j] = 0
       /\ smsum = SeqSum([n \in DOMAIN smpassed |->
                            IF smpassed[n] \in SymmetryImages THEN 0
                            ELSE smval[smpassed[n]]])

\* C4: after gradient assembly with SYMMETRY_ADD the force columns of every
\* identified pair (i,j) of C(0,0) are equal.
C4_IdentifiedPairsEqual ==
  (gpc = "done" /\ gsymbhvr = "ADD") =>
     \A n \in DOMAIN gsym : frc[gsym[n][1]] = frc[gsym[n][2]]

\* C5: refineselection selects an element of the refined mesh if and only
\* if every parent the refinement map records for it (its old id, or each id
\* of its parent list) is selected in sel.
C5_SelectedIffParentsSelected ==
  rpc = "selected" =>
    \A g \in 1..2 : \A id \in DOMAIN refinemap[g] :
      id \in rresult[g] <=> Range(refinemap[g][id].ids) \subseteq rsel[g]

\* The functionals some record of the problem holds
HeldFunctionals ==
  { (energies \o constraints \o localconstraints)[n].functional :
      n \in DOMAIN (energies \o constraints \o localconstraints) }

RefReplaced(old, new) ==
  /\ DictContains(refmap, old) => new = DictGet(refmap, old)
  /\ ~DictContains(refmap, new)

\* C6: update(dict) replaces every reference of the problem that is a key of
\* dict (the mesh, the fields, the selection and field of every energy,
\* constraint and local constraint, the field property of their functionals)
\* by dict's value for it, and afterwards no reference is a key of dict.
C6_UpdateReplacesReferences ==
  [][pcall'.op = "update" =>
       /\ RefReplaced(mesh, mesh')
       /\ DOMAIN fields' = DOMAIN fields
       /\ \A n \in DOMAIN fields : RefReplaced(fields[n], fields'[n])
       /\ DOMAIN energies' = DOMAIN energies
       /\ \A n \in DOMAIN energies :
            RefReplaced(energies[n].selection, energies'[n].selection)
       /\ DOMAIN constraints' = DOMAIN constraints
       /\ \A n \in DOMAIN constraints :
            /\ RefReplaced(constraints[n].selection, constraints'[n].selection)
            /\ RefReplaced(constraints[n].field, constraints'[n].field)
       /\ DOMAIN localconstraints' = DOMAIN localconstraints
       /\ \A n \in DOMAIN localconstraints :
            /\ RefReplaced(localconstraints[n].selection,
                           localconstraints'[n].selection)
            /\ RefReplaced(localconstraints[n].field, localconstraints'[n].field)
       /\ \A func \in HeldFunctionals :
            /\ DOMAIN funcfield'[func].val = DOMAIN funcfield[func].val
            /\ \A k \in DOMAIN funcfield[func].val :
                 RefReplaced(funcfield[func].val[k], funcfield'[func].val[k])
    ]_vars

\* update has replaced the mesh, a selection of a constraint, a field of the
\* problem and one of the two fields of a functional's field list.
C6_Witness ==
  /\ pcall.op = "update"
  /\ mesh = Refined(1)
  /\ fields = <<Refined(2)>>
  /\ \E n \in DOMAIN constraints : constraints[n].selection = Refined(4)
  /\ \E func \in HeldFunctionals : funcfield[func] = FieldList(<<Refined(2), 3>>)

\* C7: the target of a global constraint is functional.total on the mesh
\* (on the selection when one is given) when addconstraint is called, and no
\* later operation changes it.
C7_TargetFixedAtAdd ==
  [][/\ \A n \in DOMAIN constraints :
          /\ n \in DOMAIN constraints'
          /\ constraints'[n].target = constraints[n].target
     /\ pcall'.op = "addconstraint" =>
          /\ Len(constraints') = Len(constraints) + 1
          /\ LET cons == constraints'[Len(constraints')]
             IN cons.target = Total(cons.functional, cons.selection)
    ]_vars

\* A constraint on a selection keeps its target after the mesh has moved and
\* the problem has been updated, although the functional now evaluates to
\* something else.
C7_Witness ==
  /\ pcall.op = "update"
  /\ \E n \in DOMAIN constraints :
       /\ constraints[n].selection = Refined(4)
       /\ constraints[n].target # Total(constraints[n].functional,
                                        constraints[n].selection)
       /\ constraints[n].target # Total(constraints[n].functional, Nil)

\* C8 (as the code has it): addlocalconstraint called without a target
\* records the target 0.
C8_DefaultTargetZero ==
  [][(pcall'.op = "addlocalconstraint" /\ ~pcall'.hastarget) =>
       /\ Len(localconstraints') = Len(localconstraints) + 1
       /\ localconstraints'[Len(localconstraints')].target = 0
    ]_vars

\* C8 (as stated): addlocalconstraint called without a target records
\* functional.total(mesh, selection) evaluated at add time.
C8_DefaultTargetIsTotal ==
  [][(pcall'.op = "addlocalconstraint" /\ ~pcall'.hastarget) =>
       LET cons == localconstraints'[Len(localconstraints')]
       IN cons.target = Total(cons.functional, cons.selection)
    ]_vars

\* A local constraint added without a target while the functional's total
\* is not 0.
C8_Witness ==
  /\ pcall.op = "addlocalconstraint"
  /\ ~pcall.hastarget
  /\ LET cons == localconstraints[Len(localconstraints)]
     IN cons.target = 0 /\ Total(cons.functional, cons.selection) # 0

\* C9: when the bracket search fails in iteration k of linesearch or
\* conjugategradient, the call returns without an error, no further iteration
\* runs, nothing is appended to the history and the target is as it was when
\* iteration k started.
C9_BracketFailureLeavesState ==
  bfail =>
    /\ opc = "returned"
    /\ oerror = "none"
    /\ oi = iterstart.i
    /\ energy = iterstart.energy
    /\ otarget = iterstart.target

\* The bracket search fails in the second iteration, after a step has been
\* taken and its energy appended.
C9_Witness ==
  /\ bfail /\ opc = "returned" /\ iterstart.i = 1 /\ Len(energy) = 2
  /\ biter > MaxBracketIter

\* C11: bracketstepsize adjusts the trial step sizes (expands or contracts)
\* at most as often as its bound says (10 in the source), and returns
\* failure if it has no bracket by then.
C11_AtMostBoundAdjustments ==
  nadj <= MaxBracketIter

\* C12: a call of reprojectconstraints, and a call of
\* reprojectlocalconstraints, makes at most maxconstraintsteps passes of its
\* loop and then returns, whatever the residuals are.
C12_AtMostMaxConstraintSteps ==
  /\ opc = "reprojected" => rci <= maxconstraintsteps
  /\ opc = "localreprojected" => lci <= maxconstraintsteps

\* C10: when the Gram-matrix solve of the reprojection is singular the error
\* is reported, and target and energy history are those at the end of the
\* last completed iteration.
C10_SingularKeepsLastIteration ==
  oerror = "MATRIX_SINGULAR" =>
    /\ energy = iterstart.energy
    /\ otarget = iterstart.target

\* The row indices of the entries the DOK form holds in column j
DokRows(dok, j) == { k[1] : k \in { x \in DOMAIN dok.val : x[2] = j } }

\* The entries the DOK form holds, as (row, col, value)
DokEntries(dok) == { <<k[1], k[2], dok.val[k]>> : k \in DOMAIN dok.val }

\* C13: a read through the CCS form (rowindices, colindices, +, -, *) gives
\* what the entries held at the time of the read give, whatever assignments
\* and reads came before it: no CCS form built before an assignment is used.
C13_ReadsReflectEntries ==
  /\ (scall.op = "rowindices" /\ scall.ret = "ok" /\ scall.self \notin sedited)
       => scall.result = Ascending(DokRows(sdok[scall.self], scall.col))
  /\ (scall.op = "colindices" /\ scall.ret = "ok" /\ scall.self \notin sedited)
       => scall.result = Ascending({ j \in SCols : DokRows(sdok[scall.self], j) # {} })
  /\ (scall.op \in {"add", "sub", "mul"} /\ scall.ret = "ok"
         /\ scall.self \notin sedited /\ scall.arg \notin sedited)
       => LET A == DokEntries(sdok[scall.self])
              B == DokEntries(sdok[scall.arg])
              res == IF scall.op = "add" THEN cs_add(A, B, 1, 1)
                     ELSE IF scall.op = "sub" THEN cs_add(A, B, 1, -1)
                     ELSE cs_multiply(A, B)
          IN CcsEntries(sccs["new"]) = { <<k[1], k[2], res[k]>> : k \in DOMAIN res }

\* A row index read after an assignment made while a CCS form existed
C13_Witness ==
  /\ scall.op = "rowindices" /\ scall.ret = "ok"
  /\ scall.self \in sstale /\ scall.self \notin sedited
  /\ Len(scall.result) > 1

\* C14: the CCS form a conversion built lists, for every column, the row
\* indices of the entries of that column in strictly ascending order, and is
\* the same for every order in which the keys may have been inserted.
C14_ConversionSortedAndOrderFree ==
  \A o \in {"a", "b"} :
    (sccs[o].cptr # <<>> /\ o \notin sedited) =>
      /\ \A j \in 0..(sdok[o].ncols - 1) :
           LET r == sparseccs_getrowindices(sccs[o], j) IN
           /\ Range(r) = DokRows(sdok[o], j)
           /\ \A n \in 1..(Len(r) - 1) : r[n] < r[n + 1]
      /\ \A p \in Perms(Range(sdok[o].keys)) :
           sparseccs_doktoccs([sdok[o] EXCEPT !.keys = p]) = sccs[o]

\* A conversion of a column whose keys were inserted in descending row order
C14_Witness ==
  /\ sccs["a"].cptr # <<>> /\ "a" \notin sedited
  /\ \E j \in SCols : \E m, n \in DOMAIN sdok["a"].keys :
       /\ m < n
       /\ sdok["a"].keys[m][2] = j /\ sdok["a"].keys[n][2] = j
       /\ sdok["a"].keys[m][1] < sdok["a"].keys[n][1]

\* C15: +, - and * put their result in an object that is neither operand and
\* leave the entries and the dimensions of both operands as they were, also
\* when the two operands are the same object.
C15_ArithmeticLeavesOperands ==
  [][(scall'.op \in {"add", "sub", "mul"} /\ scall'.ret = "ok") =>
       /\ sccs'["new"].cptr # <<>>
       /\ \A o \in {scall'.self, scall'.arg} :
            /\ o # "new"
            /\ SparseEntries(sdok'[o], sccs'[o]) = SparseEntries(sdok[o], sccs[o])
            /\ Sparse_dimensions(sdok'[o], sccs'[o]) = Sparse_dimensions(sdok[o], sccs[o])
    ]_vars

\* a + a, a - a or a * a has returned, with a holding entries
C15_Witness ==
  /\ scall.op \in {"add", "sub", "mul"} /\ scall.ret = "ok"
  /\ scall.self = scall.arg
  /\ sdok[scall.self].keys # <<>>
  /\ sccs["new"].rix # <<>>

\* C16: refining a triangle mesh of N vertices, E edges and F faces, all
\* sides of which are edges, gives N+E vertices, 2E+3F edges and 4F faces.
C16_RefinedCounts ==
  (tpc \in {"MeshRefiner", "refinemesh"} /\ tsel.nil) =>
    /\ Len(tnew.vertices) = Cardinality(TriVertexIds) + Len(tedge)
    /\ Len(tnew.edges) = 2 * Len(tedge) + 3 * Len(tface)
    /\ Len(tnew.faces) = 4 * Len(tface)

\* The mean of item k of the old field over the parents the map records
ParentMean(field, g, map, k) ==
  SeqSum([i \in DOMAIN map.ids |-> field.val[<<g, map.ids[i], k>>]]) \div Len(map.ids)

\* C17: on every grade that carries items, every element of the refined mesh
\* gets, item by item, the mean of the old field over its parents in the
\* refinement map (the old value when there is one parent).
C17_RefinedFieldIsParentMean ==
  rpc = "fielded" =>
    \A x \in DOMAIN rnewfield.val :
      rnewfield.val[x] = ParentMean(rfield, x[1], refinemap[x[1] + 1][x[2]], x[3])

\* The stopping test on the last two entries e_prev, e of a history, with
\* etol below one grid unit: |e| < etol or |e - e_prev|/|e| < etol
StopTest(hist, k) == hist[k] = 0 \/ hist[k] = hist[k - 1]

\* What relax(n) has done when it returns: one entry appended per step, no
\* step before the last passed the stopping test, and the last one passed
\* it or was the n-th.
RelaxStopsAtFirstConverged ==
  (opc = "returned" /\ method = "relax") =>
    LET steps == Len(energy) - 1 IN
    /\ steps >= 1 /\ steps <= on
    /\ \A k \in 2..(Len(energy) - 1) : ~StopTest(energy, k)
    /\ StopTest(energy, Len(energy)) \/ steps = on

\* C18: relax(n) steps one step at a time, appends the energy after each,
\* stops right after the first step that passes the stopping test and
\* otherwise after exactly n steps; once called it does stop.
C18_RelaxStops ==
  /\ []RelaxStopsAtFirstConverged
  /\ [][(method = "relax" /\ energy' # energy /\ opc # "idle") =>
          (opc = "append" /\ Len(energy') = Len(energy) + 1)]_vars
  /\ (method = "relax" /\ opc = "loop") ~> (opc \in {"returned", "halted"})

\* relax(n) returned after n > 1 steps none of which passed the test but
\* possibly the last
C18_Witness ==
  /\ opc = "returned" /\ method = "relax"
  /\ on > 1 /\ Len(energy) = on + 1

\* relax(n) returned before n steps
C18_WitnessEarly ==
  /\ opc = "returned" /\ method = "relax"
  /\ Len(energy) - 1 < on

LineSearching == method \in {"linesearch", "conjugategradient"}

C19_WitnessBelow ==
  /\ LineSearching /\ opc = "append" /\ stepsize < steplimit

\* a trial step of energywithstepsize, undone afterwards, is beyond steplimit
C19_WitnessTrial ==
  /\ LineSearching /\ sret = "energywithstepsize" /\ opc = "reprojected"
  /\ size > steplimit

\* a ShapeOptimizer's fixed list holds no id twice
FixedHasNoRepeats ==
  \A m, n \in DOMAIN fixed.ids : fixed.ids[m] = fixed.ids[n] => m = n

\* a FieldOptimizer's fixed selection is what was fixed and not unfixed after
FieldFixedExact == ffixed.els = feverfixed

\* C20: after any sequence of fix and unfix calls, a ShapeOptimizer's fixed
\* list holds each id at most once and holds exactly the ids fixed and not
\* unfixed afterwards; a FieldOptimizer's fixed selection is the union of
\* the selections fixed minus those unfixed afterwards.
C20_FixedIsFixedNotUnfixed ==
  /\ FixedHasNoRepeats
  /\ Range(fixed.ids) = everfixed
  /\ FieldFixedExact

\* the sum of the entries of the row matrix integrand() returned
RowSum(out) == SeqSum([n \in 1..SumElems |-> out[n - 1]])

\* C21: total() equals the sum of the entries of the matrix integrand()
\* returns for the same mesh, functional and selection, and the same
\* elements were passed to the integrand in both.
C21_TotalIsSumOfIntegrand ==
  \A m, n \in DOMAIN smcalls :
    (smcalls[m].kind = "total" /\ smcalls[n].kind = "integrand") =>
      /\ smcalls[m].sum = RowSum(smcalls[n].out)
      /\ smcalls[m].passed = smcalls[n].passed

\* total and integrand have both returned for a selection of three elements
\* given out of order, one of them an image that is skipped, one an image
\* that is not
C21_Witness ==
  /\ Len(smcalls) = 2
  /\ smcalls[1].kind = "total" /\ smcalls[2].kind = "integrand"
  /\ smorder = <<2, 1, 0>> /\ smconn = << <<0, 1>>, <<0, 2>> >>
  /\ smcalls[1].sum = 5

\* the fixed vertices are where they were when they were fixed
FixedVerticesStay == \A k \in vfixed : vcoord[k] = vhome[k]

\* no step, trial step or reprojection that runs without a runtime error
\* moves a fixed vertex, nor does one that ends in MATRIX_SINGULAR
StepsKeepFixedVertices == verror # "integrand" => FixedVerticesStay

\* C22: once vertex ids are fixed on a ShapeOptimizer, no sequence of relax,
\* linesearch or conjugategradient calls changes the coordinates of those
\* vertices.
C22_FixedVerticesNeverMove == FixedVerticesStay

\* C23: after MeshRefiner.refinemesh every element id of every grade of the
\* new mesh is a key of the refinement map of that grade, the internal edges
\* of a split triangle included, and its value is an existing old id or a
\* list of existing old ids.
NewElements(g) ==
  CASE g = 0 -> tnew.vertices [] g = 1 -> tnew.edges [] OTHER -> tnew.faces

OldIds(g) ==
  CASE g = 0 -> TriVertexIds
    [] g = 1 -> 0..(Len(tedge) - 1)
    [] OTHER -> 0..(Len(tface) - 1)

\* refmap[g] is kept as the list of the values of the keys 0, 1, ...
IsMapped(g, id) ==
  /\ id + 1 \in DOMAIN tnew.refmap[g + 1]
  /\ IF g = 0 THEN Range(tnew.refmap[1][id + 1]) \subseteq OldIds(0)
     ELSE tnew.refmap[g + 1][id + 1] \in OldIds(g)

C23_EveryElementIsMapped ==
  tpc = "MeshRefiner" =>
    \A g \in 0..2 : \A id \in 0..(Len(NewElements(g)) - 1) : IsMapped(g, id)

\* what does hold: the vertices and the faces are mapped, and so is every
\* edge when no triangle was split with the edges present
VerticesAndFacesMapped ==
  tpc = "MeshRefiner" =>
    /\ \A g \in {0, 2} : \A id \in 0..(Len(NewElements(g)) - 1) : IsMapped(g, id)
    /\ Len(tnew.faces) = Len(tface) =>
          \A id \in 0..(Len(tnew.edges) - 1) : IsMapped(1, id)
\* C28: when every side of every triangle of the original mesh is an edge of
\* it, then after MeshRefiner.refinemesh, with or without a selection, every
\* side of every triangle of the new mesh is an edge of the new mesh, and
\* occurs there exactly once.
Sides(face) == { {face[1], face[2]}, {face[1], face[3]}, {face[2], face[3]} }

Occurrences(side, edges) ==
  Cardinality({ n \in DOMAIN edges : Range(edges[n]) = side })

SidesAreEdgesOnce(faces, edges) ==
  \A n \in DOMAIN faces : \A side \in Sides(faces[n]) :
    Occurrences(side, edges) = 1

C28_SidesAreEdgesOnce ==
  (tpc = "MeshRefiner" /\ SidesAreEdgesOnce(tface, tedge)) =>
    SidesAreEdgesOnce(tnew.faces, tnew.edges)

\* no two sides of the original mesh have their midpoints at one point
MidpointsDistinct ==
  \A a, b \in Range(tedge) : Midpoint(a[1], a[2]) = Midpoint(b[1], b[2]) => a = b

\* what does hold: the claim for meshes whose midpoints are distinct
SidesAreEdgesOnceGeneric ==
  (tpc = "MeshRefiner" /\ SidesAreEdgesOnce(tface, tedge) /\ MidpointsDistinct) =>
    SidesAreEdgesOnce(tnew.faces, tnew.edges)
\* C24: after refmap = MeshRefiner.refine(), problem.update(refmap) and
\* optimizer.update(refmap) for each optimizer, every mesh, field and
\* selection the problem and the optimizers use belongs to the refined
\* mesh (the ShapeOptimizer's target, the problem's mesh, the
\* FieldOptimizer's target and its fixed selection), and the
\* ShapeOptimizer's target is the problem's mesh.
AllUpdated ==
  /\ rbpc = "update" /\ rbupd = {}
  /\ {rbm, rbnn, rbbnd} \subseteq rblist

TargetsRebound ==
  /\ rbpmesh.gen = rbgen /\ rbstarget = rbpmesh
  /\ rbftarget.gen = rbgen
  /\ rbpfield.gen = rbgen /\ rbesel.gen = rbgen

C24_AllBelongToRefinedMesh ==
  AllUpdated => (TargetsRebound /\ (rbffixed # NilObj => rbffixed.gen = rbgen))

\* what does hold: the targets and the problem's references are rebound
TargetsAreRebound == AllUpdated => TargetsRebound

C24_FixedGivenToRefiner ==
  AllUpdated /\ rbffixed \in rblist /\ rbgen = 1
\* C25: assigning element (i,j) of a Sparse matrix changes only that
\* element: every other entry reads back the value it had before the
\* assignment, for any Sparse matrix, one returned by add or multiply
\* included.
Assigned == scall.result[1]

OtherEntries(E) == { e \in E : <<e[1], e[2]>> # <<Assigned[1], Assigned[2]>> }

OthersKept ==
  OtherEntries(SparseEntries(sdok[scall.self], sccs[scall.self])) =
    OtherEntries(Range(Tail(scall.result)))

C25_AssignmentChangesOneElement ==
  scall.op = "setindex" => OthersKept

\* what does hold: the claim for an object that holds its entries as a
\* dictionary of keys
AssignmentToDokChangesOneElement ==
  (scall.op = "setindex" /\ scall.self = "a") => OthersKept

AssignedToResult ==
  /\ scall.op = "setindex" /\ scall.self = "new"
  /\ OtherEntries(Range(Tail(scall.result))) # {}
\* C29: enumerating the keys of a DOK through its linked list
\* (sparsedok_loopstart / sparsedok_loop) visits the stored (row, col) keys
\* in the order in which they were first inserted.
C29_LoopInInsertionOrder == DokLoop(sdok["a"].keys) = sinserted

Backwards(l) == [n \in DOMAIN l |-> l[Len(l) + 1 - n]]

\* C29 as the code has it: the walk visits every stored key once, the key
\* inserted last first; assigning to a stored key again leaves its place
C29_LoopInReverseInsertionOrder == DokLoop(sdok["a"].keys) = Backwards(sinserted)

C29_Witness ==
  /\ Len(sinserted) = MaxEntries
  /\ scall.op = "setindex"
  /\ sdok["a"].val[sinserted[1]] = 2
\* C26: the gradient evaluated with a selection that contains every element
\* of the functional's grade equals the gradient evaluated with no
\* selection: each (element, vertex) pair contributes the same number of
\* times in both, also for a numerically differentiated functional with a
\* dependencies query.
Contributions(work, el, at, k) ==
  Cardinality({ n \in DOMAIN work :
                  work[n].el = el /\ work[n].at = at /\ work[n].k = k })

SameContributions(w1, w2) ==
  \A el \in NGVertexIds, at \in NGVertexIds, k \in NGDims :
    Contributions(w1, el, at, k) = Contributions(w2, el, at, k)

FullSelection ==
  /\ nginfo.g \in {0, 1} /\ nginfo.sel
  /\ Range(nginfo.order) = 0 .. NGElementCount(nginfo.g) - 1

WorkWithoutSelection ==
  functional_mapnumericalgradient_work(nginfo.g, nginfo.dependencies, FALSE,
    Ascending(0 .. NGElementCount(nginfo.g) - 1), <<>>)

C26_FullSelectionSameGradient ==
  (ngpc # "idle" /\ FullSelection) => SameContributions(ngwork, WorkWithoutSelection)

\* what does hold: the claim for the functionals whose query never names a
\* vertex of the element itself
FullSelectionSameGradientOwnExcluded ==
  (ngpc # "idle" /\ FullSelection /\ nginfo.dependencies # "linetorsionsq")
    => SameContributions(ngwork, WorkWithoutSelection)
\* C30: brent returns a pair [x, fx] in which fx is the smallest of all the
\* values of func it has evaluated during the call and x is the point at
\* which that value was obtained.
C30_BrentReturnsBestEvaluated ==
  brret # <<>> =>
    /\ <<brret[1], brret[2]>> \in brevals
    /\ \A ev \in brevals : brret[2] <= ev[2]

C30_Witness ==
  /\ brret # <<>>
  /\ \E ev \in brevals : ev[2] > brret[2]
  /\ \E ev \in brevals : ev[1] # lsbrack[2] /\ ev[2] = brret[2] /\ ev[1] = brret[1]

\* C27: every energy value linesearch appends to the history after a
\* successful line search is strictly lower than the entry before it.
C27_AppendedEnergyLower ==
  lspc = "appended" => lsenergy[Len(lsenergy)] < lsenergy[Len(lsenergy) - 1]

\* what does hold: the energy at the step size brent returns is lower than
\* the entry before, and so is the appended one when the step is not cut
LowerUnlessCut ==
  /\ lspc = "step" => brret[2] < lsenergy[Len(lsenergy)]
  /\ (lspc = "appended" /\ brret[1] <= lssteplimit) =>
       lsenergy[Len(lsenergy)] < lsenergy[Len(lsenergy) - 1]
====

